---- MODULE Spec2Model ----
(***************************************************************************)
(* A model of spanned-json-parser: the position-tracking Input             *)
(* (src/src/input.rs), the value and error records (src/src/value.rs,      *)
(* src/src/error.rs) and the recursive-descent parser built from nom       *)
(* combinators (src/src/parser.rs).                                        *)
(*                                                                         *)
(* A source text is a sequence of characters; a character is a string      *)
(* ("[", "\n", "U+00E9").  Byte offsets, as the Rust code uses them, are   *)
(* offsets into the UTF-8 encoding of the text.                            *)
(***************************************************************************)
EXTENDS Integers, Sequences, FiniteSets, TLC

VARIABLES
    src,        \* the text handed to parse / Input::new
    pc,         \* "ready" before the call, "done" after it
    result,     \* what parse returned (NoResult before the call)
    input,      \* an Input over src (the cursor of the slicing machine)
    advances    \* how many slicing operations produced input

vars == <<src, pc, result, input, advances>>

-----------------------------------------------------------------------------
(* Characters and their UTF-8 encoding.                                    *)

\* Unicode scalar value of each character the model's texts are made of.
CodePoint(c) ==
    CASE c = "\t" -> 9
      [] c = "\n" -> 10
      [] c = "\r" -> 13
      [] c = " " -> 32
      [] c = "\"" -> 34
      [] c = "'" -> 39
      [] c = "+" -> 43
      [] c = "," -> 44
      [] c = "-" -> 45
      [] c = "." -> 46
      [] c = "/" -> 47
      [] c = "0" -> 48
      [] c = "1" -> 49
      [] c = "2" -> 50
      [] c = "3" -> 51
      [] c = "4" -> 52
      [] c = "5" -> 53
      [] c = "6" -> 54
      [] c = "7" -> 55
      [] c = "8" -> 56
      [] c = "9" -> 57
      [] c = ":" -> 58
      [] c = "A" -> 65
      [] c = "B" -> 66
      [] c = "C" -> 67
      [] c = "D" -> 68
      [] c = "E" -> 69
      [] c = "F" -> 70
      [] c = "[" -> 91
      [] c = "\\" -> 92
      [] c = "]" -> 93
      [] c = "a" -> 97
      [] c = "b" -> 98
      [] c = "c" -> 99
      [] c = "d" -> 100
      [] c = "e" -> 101
      [] c = "f" -> 102
      [] c = "g" -> 103
      [] c = "h" -> 104
      [] c = "i" -> 105
      [] c = "l" -> 108
      [] c = "n" -> 110
      [] c = "o" -> 111
      [] c = "r" -> 114
      [] c = "s" -> 115
      [] c = "t" -> 116
      [] c = "u" -> 117
      [] c = "v" -> 118
      [] c = "w" -> 119
      [] c = "x" -> 120
      [] c = "y" -> 121
      [] c = "z" -> 122
      [] c = "{" -> 123
      [] c = "}" -> 125
      [] c = "U+00E9" -> 233
      [] c = "U+1F914" -> 129300
      \* a character of the basic plane that has no name here, "#" and its number
      [] OTHER -> CHOOSE n \in 0..65535 : c = "#" \o ToString(n)

\* The UTF-8 bytes of one scalar value.
Utf8OfCode(cp) ==
    IF cp < 128 THEN <<cp>>
    ELSE IF cp < 2048 THEN <<192 + (cp \div 64), 128 + (cp % 64)>>
    ELSE IF cp < 65536
         THEN <<224 + (cp \div 4096), 128 + ((cp \div 64) % 64), 128 + (cp % 64)>>
         ELSE <<240 + (cp \div 262144), 128 + ((cp \div 4096) % 64),
                128 + ((cp \div 64) % 64), 128 + (cp % 64)>>

Utf8Len(c) == Len(Utf8OfCode(CodePoint(c)))

RECURSIVE as_bytes(_)
\* str::as_bytes: the UTF-8 bytes of a text.
as_bytes(s) ==
    IF s = <<>> THEN <<>> ELSE Utf8OfCode(CodePoint(Head(s))) \o as_bytes(Tail(s))

RECURSIVE ByteLen(_)
\* str::len: the length of a text in bytes.
ByteLen(s) == IF s = <<>> THEN 0 ELSE Utf8Len(Head(s)) + ByteLen(Tail(s))

RECURSIVE CharsBefore(_, _)
\* The number of characters of s that start before byte offset n.
CharsBefore(s, n) ==
    IF s = <<>> \/ n <= 0 THEN 0 ELSE 1 + CharsBefore(Tail(s), n - Utf8Len(Head(s)))

\* &s[n..] and &s[..n] for a byte offset n on a character boundary.
StrFrom(s, n) == SubSeq(s, CharsBefore(s, n) + 1, Len(s))
StrTo(s, n) == SubSeq(s, 1, CharsBefore(s, n))

\* The byte offsets of s that lie on a character boundary.
Boundaries(s) == {ByteLen(SubSeq(s, 1, k)) : k \in 0..Len(s)}

-----------------------------------------------------------------------------
(* Input: a view of the text and the (line, col) of its first character.   *)

Input_new(data) == [data |-> data, line |-> 1, col |-> 1]

\* memchr::Memchr::new(b'\n', bytes): the indices (from 0) of the newline bytes.
Memchr_newline(bytes) == {k \in 0..(Len(bytes) - 1) : bytes[k + 1] = 10}

\* bytecount::num_chars: the bytes that are not UTF-8 continuation bytes.
num_chars(bytes) == Cardinality({k \in 1..Len(bytes) : ~(bytes[k] \in 128..191)})

SetMax(S) == CHOOSE m \in S : \A k \in S : k <= m

\* A slice_common whose column counts bytes instead of characters.
slice_common_bytecol(self, next_data, offset) ==
    LET old_data == as_bytes(StrTo(self.data, offset))
        nl == Memchr_newline(old_data)
        lines_to_add == Cardinality(nl)
        last_index == IF nl = {} THEN 0 ELSE SetMax(nl) + 1
        col == Len(SubSeq(old_data, last_index + 1, Len(old_data)))
    IN  IF offset = 0
        THEN [data |-> next_data, line |-> self.line, col |-> self.col]
        ELSE [data |-> next_data,
              line |-> self.line + lines_to_add,
              col |-> IF lines_to_add = 0 THEN self.col + col ELSE col + 1]

\* A slice_common whose column is not started again after a line break.
slice_common_samecol(self, next_data, offset) ==
    LET old_data == as_bytes(StrTo(self.data, offset))
        nl == Memchr_newline(old_data)
        lines_to_add == Cardinality(nl)
        last_index == IF nl = {} THEN 0 ELSE SetMax(nl) + 1
        col == num_chars(SubSeq(old_data, last_index + 1, Len(old_data)))
    IN  IF offset = 0
        THEN [data |-> next_data, line |-> self.line, col |-> self.col]
        ELSE [data |-> next_data,
              line |-> self.line + lines_to_add,
              col |-> self.col + col]

\* Input::slice_common.  next_data is a sub-slice of self.data that starts
\* `offset` bytes into it (self.data.offset(next_data)).
slice_common(self, next_data, offset) ==
    LET old_data == as_bytes(StrTo(self.data, offset))
        nl == Memchr_newline(old_data)
        lines_to_add == Cardinality(nl)
        last_index == IF nl = {} THEN 0 ELSE SetMax(nl) + 1
        col == num_chars(SubSeq(old_data, last_index + 1, Len(old_data)))
    IN  IF offset = 0
        THEN [data |-> next_data, line |-> self.line, col |-> self.col]
        ELSE [data |-> next_data,
              line |-> self.line + lines_to_add,
              col |-> IF lines_to_add = 0 THEN self.col + col ELSE col + 1]

\* Slice<RangeFrom<usize>>: self.slice(n..)
slice_from(self, n) == slice_common(self, StrFrom(self.data, n), n)

\* Slice<RangeTo<usize>>: self.slice(..n)
slice_to(self, n) == slice_common(self, StrTo(self.data, n), 0)

\* Slice<Range<usize>>: self.slice(a..b)
slice_range(self, a, b) ==
    [data |-> StrTo(StrFrom(self.data, a), b - a), line |-> 0, col |-> 1]

\* InputTake::take_split: (self.slice(count..), self.slice(..count))
take_split(self, count) == <<slice_from(self, count), slice_to(self, count)>>

-----------------------------------------------------------------------------
(* Positions, errors and nom's three-way result.                           *)

\* Position::from_ahead in the place of Position::from: one column back.
Position_from_behind(val) == [line |-> val.line, col |-> val.col - 1]
\* impl From<Input> for Position
Position_from(val) == [line |-> val.line, col |-> val.col]

\* Position::from_ahead: the position one column back.  col is a usize: the
\* subtraction of 1 from 0 panics in a debug build and wraps in a release
\* build; Underflow stands for either outcome.
Underflow == -1
usize_sub1(n) == IF n >= 1 THEN n - 1 ELSE Underflow
\* Position::from in the place of Position::from_ahead: the column is kept.
Position_from_here(val) == [line |-> val.line, col |-> val.col]
Position_from_ahead(val) == [line |-> val.line, col |-> usize_sub1(val.col)]

\* Position::default()
Position_default == [line |-> 0, col |-> 0]

\* Error::new; arg is the kind's payload (<<>> for a kind without one).
Error_new(start, end, kind, arg) ==
    [start |-> start, end |-> end, kind |-> kind, arg |-> arg]

\* Error::default()
Error_default == Error_new(Position_default, Position_default, "ToBeDefined", <<>>)

\* ParseError::from_error_kind, and ParseError::append which drops `other`.
from_error_kind(i, kind) ==
    Error_new(Position_from(i), Position_from(i), "NomError", <<kind>>)

\* FromExternalError::from_external_error
from_external_error(i) ==
    Error_new(Position_from(i), Position_from(i), "ToBeDefined", <<>>)

\* IResult: Ok((rest, output)), Err(Err::Error(e)), Err(Err::Failure(e)),
\* Err(Err::Incomplete(_)); Panic is an unwinding panic!().
Ok(i, o) == [tag |-> "Ok", i |-> i, o |-> o]
ErrError(e) == [tag |-> "Error", e |-> e]
ErrFailure(e) == [tag |-> "Failure", e |-> e]
ErrIncomplete == [tag |-> "Incomplete"]
Panic(msg) == [tag |-> "Panic", msg |-> msg]

IsOk(r) == r.tag = "Ok"

-----------------------------------------------------------------------------
(* nom's primitives over Input, through Input's trait implementations.     *)

\* A predicate on characters, as the closures handed to the traits are: the
\* characters of a set, or the characters outside a set.
one_of(chars) == [chars |-> chars, member |-> TRUE]
not_one_of(chars) == [chars |-> chars, member |-> FALSE]
test(predicate, c) == (c \in predicate.chars) = predicate.member

RECURSIVE str_position(_, _, _)
\* InputIter::position: the byte index of the first character that satisfies
\* the predicate, -1 for None.  `at` is the byte index of Head(s).
str_position(s, predicate, at) ==
    IF s = <<>> THEN -1
    ELSE IF test(predicate, Head(s)) THEN at
    ELSE str_position(Tail(s), predicate, at + Utf8Len(Head(s)))

\* InputTakeAtPosition::split_at_position (the streaming form)
split_at_position(self, predicate) ==
    LET n == str_position(self.data, predicate, 0)
    IN  IF n >= 0
        THEN LET t == take_split(self, n) IN Ok(t[1], t[2])
        ELSE ErrIncomplete

\* InputTakeAtPosition::split_at_position_complete
split_at_position_complete(self, predicate) ==
    LET res == split_at_position(self, predicate)
    IN  IF res.tag = "Incomplete"
        THEN LET t == take_split(self, ByteLen(self.data)) IN Ok(t[1], t[2])
        ELSE res

\* InputTakeAtPosition::split_at_position1_complete
split_at_position1_complete(self, predicate, e) ==
    LET n == str_position(self.data, predicate, 0)
    IN  IF n = 0 THEN ErrError(from_error_kind(self, e))
        ELSE IF n > 0 THEN LET t == take_split(self, n) IN Ok(t[1], t[2])
        ELSE IF ByteLen(self.data) = 0 THEN ErrError(from_error_kind(self, e))
        ELSE LET t == take_split(self, ByteLen(self.data)) IN Ok(t[1], t[2])

multispace == {" ", "\t", "\r", "\n"}
dec_digit == {"0", "1", "2", "3", "4", "5", "6", "7", "8", "9"}
is_multispace(c) == c \in multispace
is_dec_digit(c) == c \in dec_digit

\* A multispace0 through the streaming split_at_position.
multispace0_streaming(i) == split_at_position(i, not_one_of(multispace))

\* nom::character::complete::multispace0
multispace0(i) == split_at_position_complete(i, not_one_of(multispace))

\* nom::character::complete::multispace1
multispace1(i) ==
    split_at_position1_complete(i, not_one_of(multispace), "MultiSpace")

\* many0(multispace1): multispace1 takes a whole run, so the second round
\* fails with Err::Error and ends the loop.
many0_multispace1(i) ==
    LET r == multispace1(i)
    IN  IF r.tag = "Error" THEN Ok(i, <<>>)
        ELSE IF ~IsOk(r) THEN r
        ELSE IF ByteLen(r.i.data) = ByteLen(i.data)
             THEN ErrError(from_error_kind(i, "Many0"))
        ELSE Ok(r.i, <<r.o>>)

\* nom::character::complete::digit0
digit0(i) == split_at_position_complete(i, not_one_of(dec_digit))

\* nom::character::complete::anychar
anychar(i) ==
    IF i.data = <<>> THEN ErrError(from_error_kind(i, "Eof"))
    ELSE Ok(slice_from(i, Utf8Len(Head(i.data))), Head(i.data))

\* nom::character::complete::char
char(c, i) ==
    IF i.data # <<>> /\ Head(i.data) = c
    THEN Ok(slice_from(i, Utf8Len(c)), c)
    ELSE ErrError(from_error_kind(i, "Char"))

\* nom::character::complete::none_of
none_of(list, i) ==
    IF i.data # <<>> /\ ~(Head(i.data) \in list)
    THEN Ok(slice_from(i, Utf8Len(Head(i.data))), Head(i.data))
    ELSE ErrError(from_error_kind(i, "NoneOf"))

\* nom::bytes::complete::tag
tag(t, i) ==
    IF Len(i.data) >= Len(t) /\ SubSeq(i.data, 1, Len(t)) = t
    THEN LET s == take_split(i, ByteLen(t)) IN Ok(s[1], s[2])
    ELSE ErrError(from_error_kind(i, "Tag"))

\* nom::bytes::complete::take(count): count characters.
take(count, i) ==
    IF Len(i.data) < count THEN ErrError(from_error_kind(i, "Eof"))
    ELSE LET s == take_split(i, ByteLen(SubSeq(i.data, 1, count))) IN Ok(s[1], s[2])

\* nom::combinator::eof
eof(i) == IF i.data = <<>> THEN Ok(i, i) ELSE ErrError(from_error_kind(i, "Eof"))

\* take_until_delimiter: the text up to the next delimiter, as a String.
take_until_delimiter(i, is_key) ==
    LET chars == IF is_key THEN {" ", ",", "]", "}", "\n", ":"}
                 ELSE {" ", ",", "]", "}", "\n"}
        r == split_at_position_complete(i, one_of(chars))
    IN  IF IsOk(r) THEN Ok(r.i, r.o.data) ELSE r

-----------------------------------------------------------------------------
(* str::parse for u64, i64 and f64, and u16::from_str_radix(_, 16).        *)
(* An integer is its canonical decimal digits (no leading zero), so that   *)
(* the 64-bit limits can be compared without 64-bit arithmetic.  A float   *)
(* is the decimal it denotes, sign * m * 10^e with m canonical and without *)
(* trailing zero; binary rounding of the f64 is not modelled.              *)

U64_MAX == <<"1","8","4","4","6","7","4","4","0","7","3","7","0","9","5","5","1","6","1","5">>
I64_MAX == <<"9","2","2","3","3","7","2","0","3","6","8","5","4","7","7","5","8","0","7">>
I64_MIN_MAG == <<"9","2","2","3","3","7","2","0","3","6","8","5","4","7","7","5","8","0","8">>

AllDigits(s) == \A k \in 1..Len(s) : is_dec_digit(s[k])

RECURSIVE StripLeadingZeros(_)
StripLeadingZeros(d) ==
    IF Len(d) > 1 /\ Head(d) = "0" THEN StripLeadingZeros(Tail(d)) ELSE d

RECURSIVE StripTrailingZeros(_)
StripTrailingZeros(d) ==
    IF Len(d) > 1 /\ d[Len(d)] = "0"
    THEN StripTrailingZeros(SubSeq(d, 1, Len(d) - 1)) ELSE d

RECURSIVE LexLe(_, _)
\* a <= b for digit strings of one length.
LexLe(a, b) ==
    IF a = <<>> THEN TRUE
    ELSE IF CodePoint(Head(a)) < CodePoint(Head(b)) THEN TRUE
    ELSE IF CodePoint(Head(a)) > CodePoint(Head(b)) THEN FALSE
    ELSE LexLe(Tail(a), Tail(b))

\* a <= b for canonical digit strings.
DigitsLe(a, b) == Len(a) < Len(b) \/ (Len(a) = Len(b) /\ LexLe(a, b))

RECURSIVE DecValue(_, _)
DecValue(s, acc) ==
    IF s = <<>> THEN acc ELSE DecValue(Tail(s), acc * 10 + (CodePoint(Head(s)) - 48))

RECURSIVE DigitPrefixLen(_)
DigitPrefixLen(s) ==
    IF s # <<>> /\ is_dec_digit(Head(s)) THEN 1 + DigitPrefixLen(Tail(s)) ELSE 0

NoParse == [ok |-> FALSE]

\* u64::from_str without the overflow check: any run of digits is a u64.
parse_u64_unchecked(s) ==
    LET body == IF s # <<>> /\ Head(s) = "+" THEN Tail(s) ELSE s
    IN  IF body = <<>> \/ ~AllDigits(body) THEN NoParse
        ELSE [ok |-> TRUE, v |-> StripLeadingZeros(body)]

\* <u64 as FromStr>::from_str
parse_u64(s) ==
    LET body == IF s # <<>> /\ Head(s) = "+" THEN Tail(s) ELSE s
        c == StripLeadingZeros(body)
    IN  IF body = <<>> \/ ~AllDigits(body) THEN NoParse
        ELSE IF DigitsLe(c, U64_MAX) THEN [ok |-> TRUE, v |-> c]
        ELSE NoParse

\* <i64 as FromStr>::from_str
parse_i64(s) ==
    LET signed == s # <<>> /\ Head(s) \in {"+", "-"}
        negative == s # <<>> /\ Head(s) = "-"
        body == IF signed THEN Tail(s) ELSE s
        c == StripLeadingZeros(body)
    IN  IF body = <<>> \/ ~AllDigits(body) THEN NoParse
        ELSE IF DigitsLe(c, IF negative THEN I64_MIN_MAG ELSE I64_MAX)
             THEN [ok |-> TRUE, v |-> [neg |-> negative /\ c # <<"0">>, mag |-> c]]
        ELSE NoParse

FloatFinite(neg, m, e) == [cls |-> "finite", neg |-> neg, m |-> m, e |-> e]
FloatInf(neg) == [cls |-> "inf", neg |-> neg, m |-> <<"0">>, e |-> 0]
FloatNaN == [cls |-> "nan", neg |-> FALSE, m |-> <<"0">>, e |-> 0]

\* The decimal int.frac * 10^exp as an f64: zero, a finite decimal, or an
\* infinity past the f64 range (about 1.8e308).
MakeFloat(neg, int, frac, exp) ==
    LET all == StripLeadingZeros(int \o frac)
        m == StripTrailingZeros(all)
        e == exp - Len(frac) + (Len(all) - Len(m))
    IN  IF m = <<"0">> \/ Len(m) + e < -323 THEN FloatFinite(neg, <<"0">>, 0)
        ELSE IF Len(m) + e > 309 THEN FloatInf(neg)
        ELSE FloatFinite(neg, m, e)

\* core::num::dec2flt: Digit* ['.' Digit*] with a digit somewhere, then an
\* optional [eE] [+-] Digit+, to the end of the text.
parse_decimal(t, neg) ==
    LET ni == DigitPrefixLen(t)
        int == SubSeq(t, 1, ni)
        after == SubSeq(t, ni + 1, Len(t))
        hasDot == after # <<>> /\ Head(after) = "."
        afterDot == IF hasDot THEN Tail(after) ELSE after
        nf == IF hasDot THEN DigitPrefixLen(afterDot) ELSE 0
        frac == SubSeq(afterDot, 1, nf)
        tail == SubSeq(afterDot, nf + 1, Len(afterDot))
        hasExp == tail # <<>> /\ Head(tail) \in {"e", "E"}
        ex == IF hasExp THEN Tail(tail) ELSE <<>>
        exNeg == ex # <<>> /\ Head(ex) = "-"
        exDigits == IF ex # <<>> /\ Head(ex) \in {"+", "-"} THEN Tail(ex) ELSE ex
        exCanon == StripLeadingZeros(exDigits)
        exMag == IF Len(exCanon) > 5 THEN 100000 ELSE DecValue(exCanon, 0)
    IN  IF ni + nf = 0 THEN NoParse
        ELSE IF tail = <<>> THEN [ok |-> TRUE, v |-> MakeFloat(neg, int, frac, 0)]
        ELSE IF ~hasExp \/ exDigits = <<>> \/ ~AllDigits(exDigits) THEN NoParse
        ELSE [ok |-> TRUE,
              v |-> MakeFloat(neg, int, frac, IF exNeg THEN 0 - exMag ELSE exMag)]

\* ASCII lower case of the letters that spell inf, infinity and nan.
ascii_lower(c) ==
    CASE c = "A" -> "a" [] c = "F" -> "f" [] c = "E" -> "e" [] OTHER -> c

\* <f64 as FromStr>::from_str
parse_f64(s) ==
    LET neg == s # <<>> /\ Head(s) = "-"
        t == IF s # <<>> /\ Head(s) \in {"+", "-"} THEN Tail(s) ELSE s
        low == [k \in 1..Len(t) |-> ascii_lower(t[k])]
        num == parse_decimal(t, neg)
    IN  IF t = <<>> THEN NoParse
        ELSE IF num.ok THEN num
        ELSE IF low \in {<<"i","n","f">>, <<"i","n","f","i","n","i","t","y">>}
             THEN [ok |-> TRUE, v |-> FloatInf(neg)]
        ELSE IF low = <<"n","a","n">> THEN [ok |-> TRUE, v |-> FloatNaN]
        ELSE NoParse

Number_PosInt(v) == [variant |-> "PosInt", u |-> v]
Number_NegInt(v) == [variant |-> "NegInt", i |-> v]
Number_Float(v) == [variant |-> "Float", f |-> v]

-----------------------------------------------------------------------------
(* The value tree.                                                         *)

Value_Null == [t |-> "Null"]
Value_Bool(b) == [t |-> "Bool", b |-> b]
Value_Number(n) == [t |-> "Number", n |-> n]
Value_String(str) == [t |-> "String", s |-> str]
Value_Array(a) == [t |-> "Array", a |-> a]
Value_Object(m) == [t |-> "Object", m |-> m]

\* SpannedValue { value, start: end, end: start }
SpannedValue_swapped(value, start, end) == [value |-> value, start |-> end, end |-> start]
SpannedValue(value, start, end) == [value |-> value, start |-> start, end |-> end]

\* A collect that keeps the first pair of a key and drops the later ones.
collect_HashMap_first(tuple_vec) ==
    LET keys == {tuple_vec[k][1] : k \in 1..Len(tuple_vec)}
        first(key) == CHOOSE k \in 1..Len(tuple_vec) :
                          /\ tuple_vec[k][1] = key
                          /\ \A h \in 1..(k - 1) : tuple_vec[h][1] # key
    IN  [key \in keys |-> tuple_vec[first(key)][2]]

\* Vec<(String, SpannedValue)>::into_iter().collect::<HashMap<_, _>>(): a
\* later pair replaces an earlier pair of the same key.
collect_HashMap(tuple_vec) ==
    LET keys == {tuple_vec[k][1] : k \in 1..Len(tuple_vec)}
        last(key) == SetMax({k \in 1..Len(tuple_vec) : tuple_vec[k][1] = key})
    IN  [key \in keys |-> tuple_vec[last(key)][2]]

-----------------------------------------------------------------------------
(* The productions of src/src/parser.rs.                                   *)

\* A Result that is an Err(_), of any of nom's three kinds.
IsErr(r) == r.tag \in {"Error", "Failure", "Incomplete"}

starts_with(i, c) == i.data # <<>> /\ Head(i.data) = c

\* parse_true, parse_false and null: value(out, tag(tail)) and, on any error,
\* a fatal InvalidValue of the first letter and the text up to the delimiter.
keyword(i, first, tail, out) ==
    LET r == tag(tail, i)
        start == Position_from_ahead(i)
        d == take_until_delimiter(i, FALSE)
    IN  IF IsOk(r) THEN Ok(r.i, out)
        ELSE IF ~IsErr(r) THEN r
        ELSE IF ~IsOk(d) THEN d
        ELSE ErrFailure(Error_new(start, Position_from_ahead(d.i),
                                  "InvalidValue", <<first>> \o d.o))

parse_true(i) == keyword(i, "t", <<"r", "u", "e">>, TRUE)
parse_false(i) == keyword(i, "f", <<"a", "l", "s", "e">>, FALSE)
null(i) == keyword(i, "n", <<"u", "l", "l">>, <<>>)

HexVal(c) ==
    IF is_dec_digit(c) THEN CodePoint(c) - 48
    ELSE IF c \in {"a", "b", "c", "d", "e", "f"} THEN CodePoint(c) - 87
    ELSE IF c \in {"A", "B", "C", "D", "E", "F"} THEN CodePoint(c) - 55
    ELSE -1

RECURSIVE HexValue(_, _)
HexValue(s, acc) == IF s = <<>> THEN acc ELSE HexValue(Tail(s), acc * 16 + HexVal(Head(s)))

\* u16::from_str_radix(s, 16): an optional '+', then hex digits, below 2^16.
u16_from_str_radix16(s) ==
    LET body == IF s # <<>> /\ Head(s) = "+" THEN Tail(s) ELSE s
    IN  IF body = <<>> \/ (\E k \in 1..Len(body) : HexVal(body[k]) < 0) THEN NoParse
        ELSE IF Len(StripLeadingZeros(body)) > 4 THEN NoParse
        ELSE [ok |-> TRUE, v |-> HexValue(body, 0)]

\* str::get(0..4): the first four bytes, when they end on a character boundary.
str_get_0_4(s) == IF 4 \in Boundaries(s) THEN StrTo(s, 4) ELSE <<>>

u16_hex(i) ==
    LET t == take(4, i)
        n == u16_from_str_radix16(t.o.data)
        r == IF ~IsOk(t) THEN t
             ELSE IF n.ok THEN Ok(t.i, n.v)
             ELSE ErrError(from_external_error(i))
    IN  IF r.tag = "Error"
        THEN ErrError([r.e EXCEPT
                 !.end = [r.e.start EXCEPT !.col = @ + 4],
                 !.kind = "NotAnHex",
                 !.arg = <<"'">> \o str_get_0_4(i.data) \o <<"' is an invalid hex number">>])
        ELSE IF IsErr(r) THEN Panic("map_res didn't return Error")
        ELSE r

\* The characters of the model that have a code point.
KnownChars ==
    {"\t", "\n", "\r", " ", "\"", "'", "+", ",", "-", ".", "/", "0", "1", "2", "3", "4",
     "5", "6", "7", "8", "9", ":", "A", "B", "C", "D", "E", "F", "[", "\\", "]",
     "a", "b", "c", "d", "e", "f", "g", "h", "i", "l", "n", "o", "r", "s", "t", "u",
     "v", "w", "x", "y", "z", "{", "}", "U+00E9", "U+1F914"}

\* std::char::from_u32: None (NoParse) for a surrogate or a value past 10FFFF.
char_from_u32(cp) ==
    IF cp \in 55296..57343 \/ cp > 1114111 THEN NoParse
    ELSE IF \E c \in KnownChars : CodePoint(c) = cp
         THEN [ok |-> TRUE, v |-> CHOOSE c \in KnownChars : CodePoint(c) = cp]
    ELSE [ok |-> TRUE, v |-> "#" \o ToString(cp)]

\* An unicode_escape that leaves the pair's scalar in the basic plane: without
\* the 0x10000 of the decoding.
unicode_escape_same_plane(i) ==
    LET \* verify(u16_hex, not a surrogate)
        h == u16_hex(i)
        first == IF ~IsOk(h) THEN h
                 ELSE IF ~(h.o \in 55296..57343) THEN h
                 ELSE ErrError(from_error_kind(i, "Verify"))
        \* verify(separated_pair(u16_hex, tag("\\u"), u16_hex), high then low)
        sep == IF IsOk(h) THEN tag(<<"\\", "u">>, h.i) ELSE h
        low == IF IsOk(sep) THEN u16_hex(sep.i) ELSE sep
        second == IF ~IsOk(low) THEN low
                  ELSE IF h.o \in 55296..56319 /\ low.o \in 56320..57343
                       THEN Ok(low.i, ((h.o - 55296) * 1024) + (low.o - 56320))
                  ELSE ErrError(from_error_kind(i, "Verify"))
        \* alt((first, second))
        either == IF first.tag # "Error" THEN first
                  ELSE IF second.tag # "Error" THEN second
                  ELSE ErrError(from_error_kind(i, "Alt"))
        ch == char_from_u32(either.o)
    IN  \* map_opt(_, std::char::from_u32)
        IF ~IsOk(either) THEN either
        ELSE IF ch.ok THEN Ok(either.i, ch.v)
        ELSE ErrError(from_error_kind(i, "MapOpt"))

unicode_escape(i) ==
    LET \* verify(u16_hex, not a surrogate)
        h == u16_hex(i)
        first == IF ~IsOk(h) THEN h
                 ELSE IF ~(h.o \in 55296..57343) THEN h
                 ELSE ErrError(from_error_kind(i, "Verify"))
        \* verify(separated_pair(u16_hex, tag("\\u"), u16_hex), high then low)
        sep == IF IsOk(h) THEN tag(<<"\\", "u">>, h.i) ELSE h
        low == IF IsOk(sep) THEN u16_hex(sep.i) ELSE sep
        second == IF ~IsOk(low) THEN low
                  ELSE IF h.o \in 55296..56319 /\ low.o \in 56320..57343
                       THEN Ok(low.i, (((h.o - 55296) * 1024) + (low.o - 56320)) + 65536)
                  ELSE ErrError(from_error_kind(i, "Verify"))
        \* alt((first, second))
        either == IF first.tag # "Error" THEN first
                  ELSE IF second.tag # "Error" THEN second
                  ELSE ErrError(from_error_kind(i, "Alt"))
        ch == char_from_u32(either.o)
    IN  \* map_opt(_, std::char::from_u32)
        IF ~IsOk(either) THEN either
        ELSE IF ch.ok THEN Ok(either.i, ch.v)
        ELSE ErrError(from_error_kind(i, "MapOpt"))

\* A parse_char that takes any character after a backslash for itself.
parse_char_lenient(i) ==
    LET n == none_of({"\""}, i)
        a == anychar(n.i)
        simple == IF ~IsOk(a) THEN a
                  ELSE CASE a.o = "b" -> Ok(a.i, "#8")
                         [] a.o = "f" -> Ok(a.i, "#12")
                         [] a.o = "n" -> Ok(a.i, "\n")
                         [] a.o = "r" -> Ok(a.i, "\r")
                         [] a.o = "t" -> Ok(a.i, "\t")
                         [] OTHER -> Ok(a.i, a.o)
    IN  IF ~IsOk(n) THEN n
        ELSE IF n.o # "\\" THEN n
        ELSE simple

parse_char(i) ==
    LET n == none_of({"\""}, i)
        \* map_res(anychar, the one-letter escapes)
        a == anychar(n.i)
        simple == IF ~IsOk(a) THEN a
                  ELSE CASE a.o \in {"\"", "\\", "/"} -> Ok(a.i, a.o)
                         [] a.o = "b" -> Ok(a.i, "#8")
                         [] a.o = "f" -> Ok(a.i, "#12")
                         [] a.o = "n" -> Ok(a.i, "\n")
                         [] a.o = "r" -> Ok(a.i, "\r")
                         [] a.o = "t" -> Ok(a.i, "\t")
                         [] OTHER -> ErrError(from_external_error(n.i))
        \* preceded(char('u'), unicode_escape)
        u == char("u", n.i)
        uni == IF IsOk(u) THEN unicode_escape(u.i) ELSE u
    IN  IF ~IsOk(n) THEN n
        ELSE IF n.o # "\\" THEN n
        ELSE IF simple.tag # "Error" THEN simple
        ELSE IF uni.tag # "Error" THEN uni
        ELSE ErrError(from_error_kind(n.i, "Alt"))

RECURSIVE fold_many0_parse_char(_, _)
\* fold_many0(parse_char, String::new, push)
fold_many0_parse_char(input_, res) ==
    LET r == parse_char(input_)
    IN  IF IsOk(r)
        THEN IF ByteLen(r.i.data) = ByteLen(input_.data)
             THEN ErrError(from_error_kind(input_, "Many0"))
             ELSE fold_many0_parse_char(r.i, Append(res, r.o))
        ELSE IF r.tag = "Error" THEN Ok(input_, res)
        ELSE r

string(i) ==
    LET start == Position_from_ahead(i)
        body == fold_many0_parse_char(i, <<>>)
        q == char("\"", body.i)
        \* terminated(fold_many0(..), cut(char('"')))
        r == IF ~IsOk(body) THEN body
             ELSE IF q.tag = "Error" THEN ErrFailure(q.e)
             ELSE IF IsOk(q) THEN Ok(q.i, body.o)
             ELSE q
    IN  IF r.tag = "Failure"
        THEN ErrFailure([r.e EXCEPT !.start = start,
                                    !.end = [@ EXCEPT !.col = usize_sub1(@)],
                                    !.kind = "MissingQuote",
                                    !.arg = <<>>])
        ELSE r

number(first_char, i) ==
    LET start == Position_from_ahead(i)
        d == digit0(i)
        \* verify(digit0, no digit after a first '0'), any error replaced
        digit == IF IsOk(d) /\ (d.o.data = <<>> \/ first_char # "0") THEN d
                 ELSE IF IsOk(d) \/ IsErr(d)
                      THEN ErrError(Error_new(start, start, "NotANumber", <<>>))
                 ELSE d
        rest == take_until_delimiter(digit.i, FALSE)
        formatted == <<first_char>> \o digit.o.data \o rest.o
        asFloat == parse_f64(formatted)
        asNeg == parse_i64(formatted)
        asPos == parse_u64(formatted)
        num == IF \E k \in 1..Len(formatted) : formatted[k] \in {".", "e", "E"}
               THEN IF asFloat.ok THEN [ok |-> TRUE, v |-> Number_Float(asFloat.v)]
                    ELSE NoParse
               ELSE IF first_char = "-"
               THEN IF asNeg.ok THEN [ok |-> TRUE, v |-> Number_NegInt(asNeg.v)]
                    ELSE IF asFloat.ok THEN [ok |-> TRUE, v |-> Number_Float(asFloat.v)]
                    ELSE NoParse
               ELSE IF asPos.ok THEN [ok |-> TRUE, v |-> Number_PosInt(asPos.v)]
                    ELSE IF asFloat.ok THEN [ok |-> TRUE, v |-> Number_Float(asFloat.v)]
                    ELSE NoParse
    IN  IF ~IsOk(digit) THEN digit
        ELSE IF ~IsOk(rest) THEN rest
        ELSE IF num.ok THEN Ok(rest.i, num.v)
        ELSE ErrFailure(Error_new(start, Position_from_ahead(rest.i),
                                  "InvalidValue", formatted))

RECURSIVE json_value(_), array(_), hash(_), key_value(_)
RECURSIVE array_separated_list0(_, _, _), hash_separated_list0(_, _, _)

\* array's separator: preceded(multispace0, or_else(char(','), ..))
array_separator(start, i) ==
    LET w == multispace0(i)
        c == char(",", w.i)
        w2 == multispace0(w.i)
    IN  IF ~IsOk(w) THEN w
        ELSE IF ~IsErr(c) THEN c
        ELSE IF ~IsOk(w2) THEN w2
        ELSE IF c.tag = "Error" /\ w2.i.data # <<>> /\ ~starts_with(w2.i, "]")
             THEN ErrFailure([c.e EXCEPT !.kind = "MissingComma",
                                         !.arg = <<>>,
                                         !.start = start,
                                         !.end = [@ EXCEPT !.col = usize_sub1(@)]])
        ELSE c

\* array's element with the TrailingComma at Position::from of the input after
\* the comma.
array_element_after_comma(i) ==
    LET v == json_value(i)
        w == multispace0(i)
        b == IF IsOk(w) THEN char("]", w.i) ELSE w
    IN  IF ~IsErr(v) THEN v
        ELSE IF IsErr(b) THEN v
        ELSE IF ~IsOk(b) THEN b
        ELSE ErrFailure(Error_new(Position_from(i), Position_from(i),
                                  "TrailingComma", <<>>))

\* array's element: or_else(json_value, ..), a trailing comma when ']' follows
array_element(i) ==
    LET v == json_value(i)
        w == multispace0(i)
        b == IF IsOk(w) THEN char("]", w.i) ELSE w
    IN  IF ~IsErr(v) THEN v
        ELSE IF IsErr(b) THEN v
        ELSE IF ~IsOk(b) THEN b
        ELSE ErrFailure(Error_new(Position_from_ahead(i), Position_from_ahead(i),
                                  "TrailingComma", <<>>))

\* A loop that ends the list at an element's failure of either kind, as it
\* does at a recoverable one.
array_separated_list0_lenient(start, i, res) ==
    LET sep == array_separator(start, i)
        f == array_element(sep.i)
    IN  IF sep.tag = "Error" THEN Ok(i, res)
        ELSE IF ~IsOk(sep) THEN sep
        ELSE IF ByteLen(sep.i.data) = ByteLen(i.data)
             THEN ErrError(from_error_kind(sep.i, "SeparatedList"))
        ELSE IF f.tag \in {"Error", "Failure"} THEN Ok(i, res)
        ELSE IF ~IsOk(f) THEN f
        ELSE array_separated_list0(start, f.i, Append(res, f.o))

\* The loop of array's separated_list0 after its first element.
array_separated_list0(start, i, res) ==
    LET sep == array_separator(start, i)
        f == array_element(sep.i)
    IN  IF sep.tag = "Error" THEN Ok(i, res)
        ELSE IF ~IsOk(sep) THEN sep
        ELSE IF ByteLen(sep.i.data) = ByteLen(i.data)
             THEN ErrError(from_error_kind(sep.i, "SeparatedList"))
        ELSE IF f.tag = "Error" THEN Ok(i, res)
        ELSE IF ~IsOk(f) THEN f
        ELSE array_separated_list0(start, f.i, Append(res, f.o))

\* array's closing bracket: preceded(multispace0, or_else(char(']'), ..))
array_close(start, i) ==
    LET w == multispace0(i)
        c == char("]", w.i)
    IN  IF ~IsOk(w) THEN w
        ELSE IF c.tag = "Error"
             THEN ErrFailure([c.e EXCEPT !.kind = "MissingArrayBracket",
                                         !.arg = <<>>,
                                         !.start = start,
                                         !.end = [@ EXCEPT !.col = usize_sub1(@)]])
        ELSE c

array(i) ==
    LET start == Position_from_ahead(i)
        ws == multispace0(i)
        j == ws.i
        a == anychar(j)
        first == array_element(j)
        list == IF first.tag = "Error" THEN Ok(j, <<>>)
                ELSE IF ~IsOk(first) THEN first
                ELSE array_separated_list0(start, first.i, <<first.o>>)
        close == array_close(start, list.i)
    IN  IF ~IsOk(ws) THEN ws
        ELSE IF starts_with(j, "]")
             THEN IF IsOk(a) THEN Ok(a.i, <<>>) ELSE a
        ELSE IF j.data = <<>>
             THEN ErrFailure(Error_new(start, [start EXCEPT !.col = @ + 1],
                                       "MissingArrayBracket", <<>>))
        ELSE IF ~IsOk(list) THEN list
        ELSE IF ~IsOk(close) THEN close
        ELSE Ok(close.i, list.o)

key_value(i) ==
    LET oc == char(",", i)
        comma == IsOk(oc)
        i1 == IF comma THEN oc.i ELSE i
        pos_before_space == Position_from(i1)
        ws == multispace0(i1)
        i2 == ws.i
        \* preceded(char('"'), string) and its or_else
        q == char("\"", i2)
        k == IF IsOk(q) THEN string(q.i) ELSE q
        d == take_until_delimiter(i2, TRUE)
        key == IF k.tag # "Error" THEN k
               ELSE IF ~IsOk(d) THEN d
               ELSE ErrFailure([k.e EXCEPT
                        !.start = IF d.o = <<>> THEN pos_before_space ELSE @,
                        !.kind = "InvalidKey",
                        !.arg = d.o,
                        !.end = Position_from_ahead(d.i)])
        \* cut(preceded(multispace0, char(':'))) and its map_err
        w3 == multispace0(key.i)
        c == IF IsOk(w3) THEN char(":", w3.i) ELSE w3
        colon == IF c.tag \in {"Error", "Failure"}
                 THEN ErrFailure([c.e EXCEPT !.kind = "MissingColon",
                                             !.arg = <<>>,
                                             !.start = Position_from(key.i),
                                             !.end = Position_from(key.i)])
                 ELSE c
        v == json_value(colon.i)
    IN  IF IsErr(oc) /\ oc.tag # "Error" THEN oc
        ELSE IF ~IsOk(ws) THEN ws
        ELSE IF (starts_with(i2, "}") \/ i2.data = <<>>) /\ ~comma
             THEN ErrError(Error_default)
        ELSE IF ~IsOk(key) THEN key
        ELSE IF ~IsOk(colon) THEN colon
        ELSE IF ~IsOk(v) THEN v
        ELSE Ok(v.i, <<key.o, v.o>>)

\* hash's separator: preceded(multispace0, or_else(map_parser(char(','), ..), ..))
hash_separator(start, i) ==
    LET w == multispace0(i)
        c == char(",", w.i)
        j == multispace0(c.i)
        m == IF ~IsOk(c) THEN c
             ELSE IF ~IsOk(j) THEN j
             ELSE IF starts_with(j.i, "}")
                  THEN ErrFailure(Error_new(Position_from_ahead(c.i),
                                            Position_from_ahead(c.i),
                                            "TrailingComma", <<>>))
             ELSE Ok(c.i, ",")
        w2 == multispace0(w.i)
    IN  IF ~IsOk(w) THEN w
        ELSE IF ~IsErr(m) THEN m
        ELSE IF ~IsOk(w2) THEN w2
        ELSE IF m.tag = "Error" /\ w2.i.data # <<>> /\ ~starts_with(w2.i, "}")
             THEN ErrFailure([m.e EXCEPT !.kind = "MissingComma",
                                         !.arg = <<>>,
                                         !.start = start,
                                         !.end = [@ EXCEPT !.col = usize_sub1(@)]])
        ELSE m

\* The loop of hash's separated_list0 after its first key_value.
hash_separated_list0(start, i, res) ==
    LET sep == hash_separator(start, i)
        f == key_value(sep.i)
    IN  IF sep.tag = "Error" THEN Ok(i, res)
        ELSE IF ~IsOk(sep) THEN sep
        ELSE IF ByteLen(sep.i.data) = ByteLen(i.data)
             THEN ErrError(from_error_kind(sep.i, "SeparatedList"))
        ELSE IF f.tag = "Error" THEN Ok(i, res)
        ELSE IF ~IsOk(f) THEN f
        ELSE hash_separated_list0(start, f.i, Append(res, f.o))

\* hash's closing bracket: preceded(multispace0, or_else(char('}'), ..))
hash_close(start, i) ==
    LET w == multispace0(i)
        c == char("}", w.i)
    IN  IF ~IsOk(w) THEN w
        ELSE IF c.tag = "Error"
             THEN ErrFailure([c.e EXCEPT !.kind = "MissingObjectBracket",
                                         !.arg = <<>>,
                                         !.start = start,
                                         !.end = [@ EXCEPT !.col = usize_sub1(@)]])
        ELSE c

hash(i) ==
    LET start == Position_from_ahead(i)
        first == key_value(i)
        list == IF first.tag = "Error" THEN Ok(i, <<>>)
                ELSE IF ~IsOk(first) THEN first
                ELSE hash_separated_list0(start, first.i, <<first.o>>)
        close == hash_close(start, list.i)
    IN  IF ~IsOk(list) THEN list
        ELSE IF ~IsOk(close) THEN close
        ELSE Ok(close.i, collect_HashMap(list.o))

\* The value that json_value's dispatch on the first character yields.
json_value_dispatch(first_char, start, i) ==
    LET h == hash(i)
        a == array(i)
        s == string(i)
        n == number(first_char, i)
        t == parse_true(i)
        f == parse_false(i)
        u == null(i)
        v == take_until_delimiter(i, FALSE)
    IN  CASE first_char = "{" -> IF IsOk(h) THEN Ok(h.i, Value_Object(h.o)) ELSE h
          [] first_char = "[" -> IF IsOk(a) THEN Ok(a.i, Value_Array(a.o)) ELSE a
          [] first_char = "\"" -> IF IsOk(s) THEN Ok(s.i, Value_String(s.o)) ELSE s
          [] first_char = "-" \/ is_dec_digit(first_char) ->
                IF IsOk(n) THEN Ok(n.i, Value_Number(n.o)) ELSE n
          [] first_char = "t" -> IF IsOk(t) THEN Ok(t.i, Value_Bool(t.o)) ELSE t
          [] first_char = "f" -> IF IsOk(f) THEN Ok(f.i, Value_Bool(f.o)) ELSE f
          [] first_char = "n" -> IF IsOk(u) THEN Ok(u.i, Value_Null) ELSE u
          [] OTHER ->
                IF ~IsOk(v) THEN v
                ELSE ErrFailure(Error_new(start, Position_from_ahead(v.i),
                                          "InvalidValue", <<first_char>> \o v.o))

json_value(i) ==
    LET m == many0_multispace1(i)
        start == Position_from(m.i)
        a == anychar(m.i)
        r == json_value_dispatch(a.o, start, a.i)
    IN  IF ~IsOk(m) THEN m
        ELSE IF ~IsOk(a) THEN a
        ELSE IF ~IsOk(r) THEN r
        ELSE Ok(r.i, SpannedValue(r.o, start, Position_from_ahead(r.i)))

RECURSIVE many_till_anychar_eof(_)
\* many_till(anychar, eof): the input at its end.
many_till_anychar_eof(i) ==
    LET g == eof(i)
        f == anychar(i)
    IN  IF IsOk(g) THEN Ok(g.i, <<>>)
        ELSE IF g.tag # "Error" THEN g
        ELSE IF f.tag = "Error" THEN ErrError(from_error_kind(i, "ManyTill"))
        ELSE IF ~IsOk(f) THEN f
        ELSE IF ByteLen(f.i.data) = ByteLen(i.data)
             THEN ErrError(from_error_kind(f.i, "ManyTill"))
        ELSE many_till_anychar_eof(f.i)

\* std::result::Result<_, Error>
StdOk(v) == [tag |-> "Ok", value |-> v]
StdErr(e) == [tag |-> "Err", e |-> e]

unwrap_nom_error(value) ==
    CASE value.tag = "Ok" -> [tag |-> "Ok", i |-> value.i, o |-> value.o]
      [] value.tag \in {"Error", "Failure"} -> StdErr(value.e)
      [] value.tag = "Incomplete" -> Panic("Got Incomplete error")
      [] OTHER -> value

end_chars(i) ==
    LET ws == unwrap_nom_error(many0_multispace1(i))
        rest == ws.i
        start == Position_from(rest)
        end == unwrap_nom_error(many_till_anychar_eof(rest))
    IN  IF ~IsOk(ws) THEN ws
        ELSE IF rest.data = <<>> THEN StdOk(<<>>)
        ELSE IF ~IsOk(end) THEN end
        ELSE StdErr(Error_new(start, Position_from_ahead(end.i), "CharsAfterRoot",
                              <<"Unexpected chararacters at the end: ">> \o rest.data))

parse(s) ==
    LET span == Input_new(s)
        root == unwrap_nom_error(json_value(span))
        tail == end_chars(root.i)
    IN  IF ~IsOk(root) THEN root
        ELSE IF ~IsOk(tail) THEN tail
        ELSE StdOk(root.o)

-----------------------------------------------------------------------------
(* The texts the machines are run on.                                      *)

\* All texts of at most n characters over an alphabet.
RECURSIVE Texts(_, _)
Texts(alphabet, n) ==
    IF n = 0 THEN {<<>>}
    ELSE LET shorter == Texts(alphabet, n - 1)
         IN  shorter \cup {Append(t, c) : t \in {u \in shorter : Len(u) = n - 1},
                                          c \in alphabet}

\* The longest text of the exhaustive part of the parser's inputs, the longest
\* text of the slicing machine, and its number of slicing operations.
MaxLen == 3
MaxTextLen == 4
MaxAdvances == 3

Alphabet ==
    {"[", "]", "{", "}", ",", ":", "\"", " ", "\n", "\t", "0", "1", "-", ".",
     "n", "u", "l", "\\"}

\* Longer documents: well-formed ones and the malformed ones of the tests.
Seeds == {
    \* the smallest object and array
    <<"{", "\"", "a", "\"", ":", "1", "}">>,
    <<"[", "1", ",", "2", "]">>,
    <<"n", "u", "l", "l">>,
    \* spec.md section 8, scenario 1
    <<" ", " ", "{", "\n", " ", " ", " ", " ", "\"", "h", "e", "l", "l", "o", "\"",
      ":", " ", "\"", "w", "o", "r", "l", "d", "\"", "\n", " ", " ", "}", "\n">>,
    \* nesting, every kind of value, escapes, a repeated key
    <<"{", "\"", "a", "\"", ":", " ", "[", "t", "r", "u", "e", ",", " ", "n", "u",
      "l", "l", "]", ",", " ", "\"", "b", "\"", ":", " ", "{", "\"", "c", "\"", ":",
      " ", "-", "1", ".", "5", "e", "2", "}", "}">>,
    <<"[", "\"", "\\", "n", "\\", "u", "0", "0", "4", "1", "\"", ",", " ", "f", "a",
      "l", "s", "e", "]">>,
    <<"{", "\"", "a", "\"", ":", "1", ",", "\"", "a", "\"", ":", "2", "}">>,
    \* src/tests/parser.rs
    <<"{", " ", " ", " ", "1", "2", ":", " ", "\"", "w", "o", "r", "l", "d", "\"",
      "}">>,
    <<"{", "\"", "h", "e", "l", "l", "o", "\"", " ", "\"", "w", "o", "r", "l", "d",
      "\"", "}">>,
    <<"[", "\"", "h", "e", "l", "l", "o", "\"">>,
    <<"[", "1", " ", "2", "]">>,
    <<"{", "\"", "h", "e", "l", "l", "o", "\"", ":", " ", "\"", "w", "o", "r", "l",
      "d", "}">>,
    <<"{", "\"", "h", "e", "l", "l", "o", "\"", ":", " ", "1", "2", "3", "a", "b",
      "}">>,
    <<"{", "\"", "a", "\"", ":", "1", "}", " ", "g", "a", "r", "b", "a", "g", "e">>,
    <<"[", "1", "0", "0", "0", "0", "0", "0", "0", "0", "0", "0", "0", "0", "0", "0",
      "0", "0", "0", "0", "0", "0", "]">>,
    <<"{", "\"", "f", "o", "o", "U+1F914", "b", "a", "r", "\"", ":", " ", "4", "2",
      "}">>,
    \* a comma before a closing bracket on the next line
    <<"[", "1", ",", "\n", "]">>,
    <<"{", "\"", "a", "\"", ":", "1", " ", ",", "\n", " ", "}">>
    }

\* A seed with one character inserted or one character removed.
Edited(t) ==
    {SubSeq(t, 1, k) \o <<c>> \o SubSeq(t, k + 1, Len(t)) : k \in 0..Len(t), c \in Alphabet}
    \cup {SubSeq(t, 1, k - 1) \o SubSeq(t, k + 1, Len(t)) : k \in 1..Len(t)}

Inputs == Texts(Alphabet, MaxLen) \cup Seeds \cup UNION {Edited(t) : t \in Seeds}

NoResult == [tag |-> "None"]

-----------------------------------------------------------------------------
(* The parsing machine: one call of parse on a text.                       *)

Init ==
    /\ src \in Inputs
    /\ pc = "ready"
    /\ result = NoResult
    /\ input = Input_new(src)
    /\ advances = 0

\* One call of an entry point of the library on the text.
Call(entry(_)) ==
    /\ pc = "ready"
    /\ result' = entry(src)
    /\ pc' = "done"
    /\ UNCHANGED <<src, input, advances>>

Parse == Call(parse)

Next == Parse

Spec == Init /\ [][Next]_vars

-----------------------------------------------------------------------------
(* The slicing machine: an Input over a text, advanced by slice(n..).      *)

TextAlphabet == {"a", "\n", "U+00E9", "U+1F914"}

InitInput ==
    /\ src \in Texts(TextAlphabet, MaxTextLen)
    /\ pc = "ready"
    /\ result = NoResult
    /\ input = Input_new(src)
    /\ advances = 0

Advance(n) ==
    /\ advances < MaxAdvances
    /\ n \in Boundaries(input.data)
    /\ input' = slice_from(input, n)
    /\ advances' = advances + 1
    /\ UNCHANGED <<src, pc, result>>

NextInput == \E n \in 0..ByteLen(src) : Advance(n)

SpecInput == InitInput /\ [][NextInput]_vars

-----------------------------------------------------------------------------
(* What the properties are stated with: positions counted from the text    *)
(* itself, the nodes of a tree, the tokens of a text.                      *)

\* The position reached from (1, 1) by reading the text p.
PositionAfter(p) ==
    LET newlines == {k \in 1..Len(p) : p[k] = "\n"}
        last == IF newlines = {} THEN 0 ELSE SetMax(newlines)
    IN  [line |-> 1 + Cardinality(newlines), col |-> 1 + (Len(p) - last)]

\* The position of the k-th character of s.
PosOfIndex(s, k) == PositionAfter(SubSeq(s, 1, k - 1))

\* Source order of positions.
LtPos(a, b) == a.line < b.line \/ (a.line = b.line /\ a.col < b.col)
LePos(a, b) == a = b \/ LtPos(a, b)

JsonWhitespace == {" ", "\t", "\r", "\n"}
ValueDelimiters == {" ", ",", "]", "}", "\n"}
KeyDelimiters == ValueDelimiters \cup {":"}
Digits == {"0", "1", "2", "3", "4", "5", "6", "7", "8", "9"}

\* The children of an array or object, as a function from what names them.
Children(node) ==
    CASE node.value.t = "Array" -> node.value.a
      [] node.value.t = "Object" -> node.value.m
      [] OTHER -> <<>>

RECURSIVE StripSpans(_)
\* The value of a node without the spans.
StripSpans(node) ==
    CASE node.value.t = "Array" ->
            [t |-> "Array",
             a |-> [k \in 1..Len(node.value.a) |-> StripSpans(node.value.a[k])]]
      [] node.value.t = "Object" ->
            [t |-> "Object",
             m |-> [key \in DOMAIN node.value.m |-> StripSpans(node.value.m[key])]]
      [] OTHER -> node.value

RECURSIVE Outside(_, _, _, _)
\* The indices from k on that lie outside the string literals of s (the
\* quotes of a literal are inside it).
Outside(s, k, inString, escaped) ==
    IF k > Len(s) THEN {}
    ELSE IF inString
         THEN IF escaped THEN Outside(s, k + 1, TRUE, FALSE)
              ELSE IF s[k] = "\\" THEN Outside(s, k + 1, TRUE, TRUE)
              ELSE IF s[k] = "\"" THEN Outside(s, k + 1, FALSE, FALSE)
              ELSE Outside(s, k + 1, TRUE, FALSE)
    ELSE IF s[k] = "\"" THEN Outside(s, k + 1, TRUE, FALSE)
    ELSE {k} \cup Outside(s, k + 1, FALSE, FALSE)

Structural(s) == Outside(s, 1, FALSE, FALSE)

\* The index of the first character from k on that is not whitespace, and of
\* the last one up to k; 0 when there is none.
NextNonWs(s, k) ==
    LET J == {j \in k..Len(s) : s[j] \notin JsonWhitespace}
    IN  IF J = {} THEN 0 ELSE CHOOSE j \in J : \A h \in J : j <= h
PrevNonWs(s, k) ==
    LET J == {j \in 1..k : s[j] \notin JsonWhitespace}
    IN  IF J = {} THEN 0 ELSE SetMax(J)

\* The text from index k up to, not including, the next delimiter.
TokenAt(s, k, delimiters) ==
    LET J == {j \in k..Len(s) : s[j] \in delimiters}
        stop == IF J = {} THEN Len(s) + 1 ELSE CHOOSE j \in J : \A h \in J : j <= h
    IN  SubSeq(s, k, stop - 1)

\* The number of digits of t from index k on.
DigitRun(t, k) ==
    LET J == {j \in k..(Len(t) + 1) : j = Len(t) + 1 \/ t[j] \notin Digits}
    IN  (CHOOSE j \in J : \A h \in J : j <= h) - k

\* number = [ "-" ] int [ "." 1*DIGIT ] [ ("e" / "E") [ "+" / "-" ] 1*DIGIT ]
\* with int = "0" / ( %x31-39 *DIGIT ), as RFC 8259 has it.
IsJsonNumber(t) ==
    LET a == IF t # <<>> /\ t[1] = "-" THEN 2 ELSE 1
        n1 == DigitRun(t, a)
        b == a + n1
        hasFrac == b <= Len(t) /\ t[b] = "."
        n2 == IF hasFrac THEN DigitRun(t, b + 1) ELSE 0
        c == IF hasFrac THEN b + 1 + n2 ELSE b
        hasExp == c <= Len(t) /\ t[c] \in {"e", "E"}
        d == IF hasExp /\ c + 1 <= Len(t) /\ t[c + 1] \in {"+", "-"} THEN c + 2 ELSE c + 1
        n3 == IF hasExp THEN DigitRun(t, d) ELSE 0
        end == IF hasExp THEN d + n3 ELSE c
    IN  /\ n1 >= 1
        /\ t[a] = "0" => n1 = 1
        /\ hasFrac => n2 >= 1
        /\ hasExp => n3 >= 1
        /\ end = Len(t) + 1

\* The digits of t (after the sign) start with a superfluous zero.
HasLeadingZero(t) ==
    LET a == IF t # <<>> /\ t[1] = "-" THEN 2 ELSE 1
    IN  a + 1 <= Len(t) /\ t[a] = "0" /\ t[a + 1] \in Digits

Done == pc = "done"
Succeeded == Done /\ result.tag = "Ok"
Failed == Done /\ result.tag = "Err"

-----------------------------------------------------------------------------
(* Spans of the returned tree.                                             *)

\* The first and last character that a value of this kind is written with.
Delimits(v, s, a, b) ==
    CASE v.t = "String" -> a < b /\ s[a] = "\"" /\ s[b] = "\""
      [] v.t = "Array" -> a < b /\ s[a] = "[" /\ s[b] = "]"
      [] v.t = "Object" -> a < b /\ s[a] = "{" /\ s[b] = "}"
      [] v.t = "Bool" -> s[a] \in {"t", "f"} /\ s[b] = "e"
      [] v.t = "Null" -> s[a] = "n" /\ s[b] = "l"
      [] v.t = "Number" ->
            /\ s[a] \in Digits \cup {"-"}
            /\ s[b] \notin JsonWhitespace
            /\ b < Len(s) => s[b + 1] \in JsonWhitespace \cup {",", "]", "}"}

\* The span of the node is the span of a piece of s that is written as a value
\* of the node's kind and that, read alone, is the node's value.
SpanExactAt(s, node) ==
    \E a \in 1..Len(s), b \in 1..Len(s) :
        /\ a <= b
        /\ PosOfIndex(s, a) = node.start
        /\ PosOfIndex(s, b) = node.end
        /\ Delimits(node.value, s, a, b)
        /\ LET alone == parse(SubSeq(s, a, b))
           IN  alone.tag = "Ok" /\ StripSpans(alone.value) = StripSpans(node)

RECURSIVE SpanExact(_, _)
\* The span is exact at the node and at every node below it.
SpanExact(s, node) ==
    /\ SpanExactAt(s, node)
    /\ \A k \in DOMAIN Children(node) : SpanExact(s, Children(node)[k])

\* C1: every node of the tree of a successful parse spans exactly the text of
\* its value, from its first character to its last character inclusive, with
\* no whitespace before or after it.
C1_SpansAreExact ==
    Succeeded => SpanExact(src, result.value)

\* An object that follows leading whitespace and has a member on a later line.
C1_Witness ==
    /\ Succeeded
    /\ result.value.value.t = "Object"
    /\ result.value.start.col > 1
    /\ \E key \in DOMAIN result.value.value.m :
           /\ result.value.value.m[key].start.line > result.value.start.line
           /\ result.value.value.m[key].value.t = "String"

RECURSIVE SpansNest(_)
\* The node and every node below it start no later than they end, and each
\* child lies strictly inside its parent.
SpansNest(node) ==
    /\ LePos(node.start, node.end)
    /\ \A k \in DOMAIN Children(node) :
           /\ LtPos(node.start, Children(node)[k].start)
           /\ LtPos(Children(node)[k].end, node.end)
           /\ SpansNest(Children(node)[k])

\* C7: in the returned tree every node starts no later than it ends, and the
\* span of an array or object strictly contains the span of each child.
C7_SpansNest ==
    Succeeded => SpansNest(result.value)

\* A tree of three levels, with an array and an object below the root.
C7_Witness ==
    /\ Succeeded
    /\ result.value.value.t = "Object"
    /\ \E key \in DOMAIN result.value.value.m :
           LET child == result.value.value.m[key]
           IN  /\ child.value.t = "Array"
               /\ \E k \in 1..Len(child.value.a) : child.value.a[k].value.t = "Null"
    /\ \E key \in DOMAIN result.value.value.m :
           LET child == result.value.value.m[key]
           IN  /\ child.value.t = "Object"
               /\ \E k \in DOMAIN child.value.m : child.value.m[k].value.t = "Number"

-----------------------------------------------------------------------------
(* The error of a failed parse.                                            *)

UserFacingKinds ==
    {"MissingQuote", "MissingArrayBracket", "MissingObjectBracket", "MissingComma",
     "MissingColon", "InvalidKey", "InvalidValue", "NotAnHex", "CharsAfterRoot",
     "TrailingComma"}

\* C2: the error of a failed parse has one of the user-facing kinds, never
\* NomError, ToBeDefined or NotANumber, whatever the input, the empty and the
\* whitespace-only input included.
C2_OnlyUserFacingKinds == Failed => result.e.kind \in UserFacingKinds

\* C6: the span of the error of a failed parse is well formed: lines and
\* columns are at least 1 and the start is not after the end.
C6_ErrorSpanWellFormed ==
    Failed =>
        /\ result.e.start.line >= 1 /\ result.e.start.col >= 1
        /\ result.e.end.line >= 1 /\ result.e.end.col >= 1
        /\ LePos(result.e.start, result.e.end)

RECURSIVE NoUnderflow(_)
\* No column of the tree is the outcome of a subtraction below zero.
NoUnderflow(node) ==
    /\ node.start.col # Underflow
    /\ node.end.col # Underflow
    /\ \A k \in DOMAIN Children(node) : NoUnderflow(Children(node)[k])

\* C8: parse returns Ok(tree) or Err(error) on every text: it reaches none of
\* its panics (a column below zero, "Got Incomplete error", "map_res didn't
\* return Error").
C8_NoPanic ==
    Done =>
        /\ result.tag \in {"Ok", "Err"}
        /\ result.tag = "Err" =>
               result.e.start.col # Underflow /\ result.e.end.col # Underflow
        /\ result.tag = "Ok" => NoUnderflow(result.value)

\* A failure whose end was stepped one column back at the start of a line, and
\* a text that ends inside an array.
C8_Witness ==
    /\ Failed
    /\ result.e.kind = "MissingArrayBracket"
    /\ result.e.end.col = 0
    /\ src[Len(src)] = "\n"

-----------------------------------------------------------------------------
(* Commas, whitespace and invalid tokens.                                  *)

\* A comma of s, outside the string literals, that follows an opening bracket
\* or another comma, or that precedes a closing bracket.
MisplacedComma(s) ==
    \E k \in Structural(s) :
        /\ s[k] = ","
        /\ \/ PrevNonWs(s, k - 1) # 0 /\ s[PrevNonWs(s, k - 1)] \in {"[", "{", ","}
           \/ NextNonWs(s, k + 1) # 0 /\ s[NextNonWs(s, k + 1)] \in {"]", "}"}

\* C4: a text with a comma before the first element or member, with two
\* consecutive commas, or with a comma before the closing bracket is rejected,
\* in an array and in an object alike.
C4_CommasAreStrict == Done /\ MisplacedComma(src) => result.tag # "Ok"

\* The places between two tokens where whitespace is put: before a comma or a
\* closing bracket, and after the root value.
Gaps(s) == {k \in Structural(s) : s[k] \in {",", "]", "}"}} \cup {Len(s) + 1}

InsertAt(s, k, c) == SubSeq(s, 1, k - 1) \o <<c>> \o SubSeq(s, k, Len(s))

\* C5: whitespace between tokens is not significant: an accepted text with a
\* space, tab, CR or LF put between two tokens is accepted with the same values.
C5_WhitespaceInsignificant ==
    Succeeded =>
        \A k \in Gaps(src), w \in JsonWhitespace :
            LET spaced == parse(InsertAt(src, k, w))
            IN  /\ spaced.tag = "Ok"
                /\ StripSpans(spaced.value) = StripSpans(result.value)

\* The token starts no JSON value, or starts as a keyword and is none, or
\* starts as a number and (a superfluous leading zero aside) is none.
InvalidValueToken(t) ==
    /\ t # <<>>
    /\ \/ t[1] \notin {"{", "[", "\"", "-", "t", "f", "n"} \cup Digits
       \/ t[1] \in {"t", "f", "n"}
            /\ t \notin {<<"t", "r", "u", "e">>, <<"f", "a", "l", "s", "e">>,
                         <<"n", "u", "l", "l">>}
       \/ t[1] \in {"-"} \cup Digits /\ ~IsJsonNumber(t) /\ ~HasLeadingZero(t)

\* C9: when the token of the root value is invalid, parse fails with
\* InvalidValue(token), the token running up to the next delimiter or the end
\* of the text, spanned from its first to its last character.
C9_InvalidValueToken ==
    LET k == NextNonWs(src, 1)
        token == TokenAt(src, k, ValueDelimiters)
    IN  Done /\ k # 0 /\ InvalidValueToken(token) =>
            /\ result.tag = "Err"
            /\ result.e.kind = "InvalidValue"
            /\ result.e.arg = token
            /\ result.e.start = PosOfIndex(src, k)
            /\ result.e.end = PosOfIndex(src, k + Len(token) - 1)

\* C10: when the first character after "{" and whitespace is neither a quote
\* nor "}", parse fails with InvalidKey(token), the token running up to the
\* next key delimiter; the span is the token's, and for an empty token it runs
\* from the position after "{" to the last character before the delimiter.
C10_InvalidKeyToken ==
    LET k == NextNonWs(src, 2)
        token == TokenAt(src, k, KeyDelimiters)
    IN  Done /\ src # <<>> /\ src[1] = "{" /\ k # 0 /\ src[k] \notin {"\"", "}"} =>
            /\ result.tag = "Err"
            /\ result.e.kind = "InvalidKey"
            /\ result.e.arg = token
            /\ result.e.start = (IF token # <<>> THEN PosOfIndex(src, k)
                                 ELSE PosOfIndex(src, 2))
            /\ result.e.end = (IF token # <<>> THEN PosOfIndex(src, k + Len(token) - 1)
                               ELSE PosOfIndex(src, k - 1))

-----------------------------------------------------------------------------
(* The position of an Input.                                               *)

\* The prefix of src that the advances consumed.
Consumed == SubSeq(src, 1, Len(src) - Len(input.data))

\* C3: after any advances that together consume the prefix p, the line is 1 +
\* the number of newlines of p and the column is 1 + the number of characters
\* of p after its last newline, however the advances split p.
C3_PositionOfConsumedPrefix ==
    /\ input.data = SubSeq(src, Len(Consumed) + 1, Len(src))
    /\ input.line = PositionAfter(Consumed).line
    /\ input.col = PositionAfter(Consumed).col

\* Three advances, the last one past a newline and a character of two bytes.
C3_Witness ==
    /\ advances = MaxAdvances
    /\ input.line = 2
    /\ input.col = 3
    /\ Len(Consumed) >= 3
    /\ Consumed[Len(Consumed)] = "U+00E9"
    /\ input.data # <<>>

-----------------------------------------------------------------------------
(* The kind and the span of each error.                                    *)

RECURSIVE Unclosed(_, _, _)
\* The indices of the brackets of s, outside its string literals, that are
\* open at its end, the innermost first.
Unclosed(s, k, stack) ==
    IF k > Len(s) THEN stack
    ELSE IF k \notin Structural(s) THEN Unclosed(s, k + 1, stack)
    ELSE IF s[k] \in {"[", "{"} THEN Unclosed(s, k + 1, <<k>> \o stack)
    ELSE IF s[k] \in {"]", "}"} /\ stack # <<>> THEN Unclosed(s, k + 1, Tail(stack))
    ELSE Unclosed(s, k + 1, stack)

\* The closing brackets that end every construct open at the end of s.
Closing(s) ==
    LET open == Unclosed(s, 1, <<>>)
    IN  [k \in 1..Len(open) |-> IF s[open[k]] = "[" THEN "]" ELSE "}"]

\* The text p, followed by the text more and closed, is accepted.
Completes(p, more) == parse(p \o more \o Closing(p)).tag = "Ok"

\* The failure of the call: its kind, its start and its end.
FailsWith(kind, start, end) ==
    /\ result.tag = "Err"
    /\ result.e.kind = kind
    /\ result.e.start = start
    /\ result.e.end = end

\* The indices just after the closing quote of a key of s that no colon
\* follows: up to the quote s is the start of an accepted text, and it stays
\* one when a colon and a value are put after the quote.
KeysWithoutColon(s) ==
    {q \in 2..(Len(s) + 1) :
        /\ s[q - 1] = "\""
        /\ NextNonWs(s, q) = 0 \/ s[NextNonWs(s, q)] # ":"
        /\ Completes(SubSeq(s, 1, q - 1), <<":", "0">>)}

\* C11: when a key is followed, after optional whitespace, by something else
\* than a colon or by the end of the text, parse fails with MissingColon and
\* start = end = the position just after the key's closing quote.
C11_MissingColon ==
    Done => \A q \in KeysWithoutColon(src) :
                FailsWith("MissingColon", PosOfIndex(src, q), PosOfIndex(src, q))

\* A key of several characters with whitespace and a value after it.
C11_Witness ==
    /\ Failed
    /\ result.e.kind = "MissingColon"
    /\ \E q \in KeysWithoutColon(src) :
           /\ q > 8
           /\ NextNonWs(src, q) > q

\* The indices of the opening quotes of s whose literal the end of s cuts
\* short: the quote opens a literal where a value or a key may stand, and every
\* character after it is read as a character of the literal.
UnterminatedStrings(s) ==
    {a \in 1..Len(s) :
        /\ s[a] = "\""
        /\ a \in Structural(SubSeq(s, 1, a - 1) \o <<"0">>)
        /\ LET body == fold_many0_parse_char(Input_new(SubSeq(s, a + 1, Len(s))), <<>>)
           IN  IsOk(body) /\ body.i.data = <<>>
        /\ \/ Completes(SubSeq(s, 1, a - 1) \o <<"\"", "\"">>, <<>>)
           \/ Completes(SubSeq(s, 1, a - 1) \o <<"\"", "\"">>, <<":", "0">>)}

\* C12: when the text ends inside a string, a value or a key, parse fails with
\* MissingQuote from the position of the opening quote to the position of the
\* last character of the text.
C12_MissingQuote ==
    Done => \A a \in UnterminatedStrings(src) :
                FailsWith("MissingQuote", PosOfIndex(src, a), PosOfIndex(src, Len(src)))

\* The index of the opening bracket of the innermost construct that the end
\* of s leaves open where its closing bracket is due, 0 when there is none: s
\* with the closing brackets put after it is accepted, and an array that is
\* left open has an element.
LeftOpen(s) ==
    LET open == Unclosed(s, 1, <<>>)
    IN  IF /\ open # <<>>
           /\ s[open[1]] = "[" => PrevNonWs(s, Len(s)) # open[1]
           /\ Completes(s, <<>>)
        THEN open[1] ELSE 0

\* C13: when the text ends where the closing bracket of an array with an
\* element, or of an object, is due, trailing whitespace or not, parse fails
\* with MissingArrayBracket, respectively MissingObjectBracket, from the
\* position of the opening bracket of the innermost open construct to the
\* position of the last character of the text.
C13_MissingBracket ==
    Done /\ LeftOpen(src) # 0 =>
        FailsWith(IF src[LeftOpen(src)] = "[" THEN "MissingArrayBracket"
                  ELSE "MissingObjectBracket",
                  PosOfIndex(src, LeftOpen(src)), PosOfIndex(src, Len(src)))

\* The indices of the characters of s that stand where a comma or a closing
\* bracket is due: the character is not whitespace, and before it, whitespace
\* aside, an element or member of an open construct ends (an element that is
\* not closed by a quote or a bracket is followed by whitespace).
AfterElement(s) ==
    {c \in 2..Len(s) :
        LET e == PrevNonWs(s, c - 1)
            open == LeftOpen(SubSeq(s, 1, e))
        IN  /\ s[c] \notin JsonWhitespace
            /\ e # 0
            /\ e < c - 1 \/ s[e] \in {"\"", "]", "}"}
            /\ open # 0
            /\ open # e}

\* The opening bracket of the construct whose element ends before index c.
ConstructAt(s, c) == LeftOpen(SubSeq(s, 1, PrevNonWs(s, c - 1)))

\* C14: when the character after an element of an array or a member of an
\* object, whitespace aside, is neither a comma nor the closing bracket of the
\* construct, parse fails with MissingComma from the position of the
\* construct's opening bracket to the position just before that character.
C14_MissingComma ==
    Done => \A c \in {k \in 2..Len(src) : src[k] # ","} \cap AfterElement(src) :
                src[c] # (IF src[ConstructAt(src, c)] = "[" THEN "]" ELSE "}")
                => FailsWith("MissingComma", PosOfIndex(src, ConstructAt(src, c)),
                             PosOfIndex(src, c - 1))

\* The opening bracket of the construct of s of which an element or member
\* ends before index c, 0 when there is none: the text before c, closed, is
\* accepted, and its innermost open construct is not empty.
ElementBefore(s, c) ==
    LET open == LeftOpen(SubSeq(s, 1, c - 1))
    IN  IF open # 0 /\ open # PrevNonWs(s, c - 1) THEN open ELSE 0

\* The indices of the commas of s that follow an element or member and that
\* are followed, whitespace aside, by the closing bracket of the construct.
TrailingCommas(s) ==
    {c \in 2..Len(s) :
        /\ s[c] = ","
        /\ NextNonWs(s, c + 1) # 0
        /\ s[NextNonWs(s, c + 1)] \in {"]", "}"}
        /\ ElementBefore(s, c) # 0
        /\ s[NextNonWs(s, c + 1)] = (IF s[ElementBefore(s, c)] = "[" THEN "]" ELSE "}")}

AfterRoot(s) ==
    {c \in 2..Len(s) :
        /\ s[c] \notin JsonWhitespace
        /\ NextNonWs(s, 1) < c
        /\ s[c - 1] \in JsonWhitespace \cup {"\"", "]", "}"}
        /\ parse(SubSeq(s, 1, c - 1)).tag = "Ok"}

\* C16: a text that ends with whitespace after the root value is accepted; when
\* another character follows the root value, parse fails with CharsAfterRoot of
\* the text from that character on, spanned from that character to the last
\* character of the text.
C16_CharsAfterRoot ==
    Done =>
        /\ \A k \in 1..Len(src) :
               /\ parse(SubSeq(src, 1, k)).tag = "Ok"
               /\ \A j \in (k + 1)..Len(src) : src[j] \in JsonWhitespace
               => result.tag = "Ok"
        /\ \A c \in AfterRoot(src) :
               /\ FailsWith("CharsAfterRoot", PosOfIndex(src, c), PosOfIndex(src, Len(src)))
               /\ result.e.arg = SubSeq(src, c, Len(src))

HexDigits == Digits \cup {"a", "b", "c", "d", "e", "f", "A", "B", "C", "D", "E", "F"}

\* The indices of the backslashes of s that start a \u escape without four
\* hexadecimal digits after it: the backslash stands in a string of which
\* every character before it is read as a character of the string.
BadUnicodeEscapes(s) ==
    {k \in 2..(Len(s) - 1) :
        /\ s[k] = "\\"
        /\ s[k + 1] = "u"
        /\ \/ k + 5 > Len(s)
           \/ \E j \in (k + 2)..(k + 5) : s[j] \notin HexDigits
        /\ UnterminatedStrings(SubSeq(s, 1, k - 1)) # {}}

\* C17: when a string holds \u followed by four characters that are not all
\* hexadecimal digits, or by fewer than four characters, parse fails with
\* NotAnHex and a span of four columns at the escape.
C17_NotAnHex ==
    Done => \A k \in BadUnicodeEscapes(src) :
                /\ result.tag = "Err"
                /\ result.e.kind = "NotAnHex"
                /\ result.e.start.line = PosOfIndex(src, k).line
                /\ result.e.end.line = result.e.start.line
                /\ result.e.end.col = result.e.start.col + 4
                /\ result.e.start.col \in PosOfIndex(src, k).col..(PosOfIndex(src, k).col + 2)

\* The indices of s where a number with a superfluous leading zero stands as a
\* value: a value may start at the index (the text before it, continued with
\* the value 0 and closed, is accepted, and no token runs into the index).
LeadingZeroNumbers(s) ==
    {k \in 1..Len(s) :
        /\ k = 1 \/ s[k - 1] \in JsonWhitespace \cup {"[", ",", ":"}
        /\ HasLeadingZero(TokenAt(s, k, JsonWhitespace \cup {",", "]", "}"}))
        /\ Completes(SubSeq(s, 1, k - 1), <<"0">>)}

\* C18: a text with an integer that starts with a zero followed by a digit,
\* after a minus sign or not, at the root or inside an array or object, is
\* rejected; the text 0 is accepted.
C18_LeadingZeroRejected ==
    Done =>
        /\ LeadingZeroNumbers(src) # {} => result.tag = "Err"
        /\ src = <<"0">> => result.tag = "Ok"

-----------------------------------------------------------------------------
(* Integers at the limits of u64 and i64.                                  *)

\* The decimal digits by their value, and the value of a digit.
DigitChar(n) == <<"0", "1", "2", "3", "4", "5", "6", "7", "8", "9">>[n + 1]
DigitVal(c) == CHOOSE n \in 0..9 : DigitChar(n) = c

\* Twice the number written with the digits d: a digit of 5 or more carries
\* one into the digit before it.
Double(d) ==
    LET carry(k) == IF k <= Len(d) /\ DigitVal(d[k]) >= 5 THEN 1 ELSE 0
        low == [k \in 1..Len(d) |-> DigitChar((2 * DigitVal(d[k]) + carry(k + 1)) % 10)]
    IN  IF carry(1) = 1 THEN <<"1">> \o low ELSE low

RECURSIVE Doubled(_, _)
\* The number written with the digits d, doubled n times.
Doubled(d, n) == IF n = 0 THEN d ELSE Double(Doubled(d, n - 1))

\* The decimal digits of 2^63 = -i64::MIN and of 2^64 = u64::MAX + 1, by
\* doubling from 1.
TwoTo16 == Doubled(<<"1">>, 16)
TwoTo32 == Doubled(TwoTo16, 16)
TwoTo48 == Doubled(TwoTo32, 16)
TwoTo63 == Doubled(TwoTo48, 15)
TwoTo64 == Double(TwoTo63)

\* a < b for decimal digits without a leading zero.
DigitsLess(a, b) ==
    \/ Len(a) < Len(b)
    \/ /\ Len(a) = Len(b)
       /\ \E k \in 1..Len(a) :
              /\ DigitVal(a[k]) < DigitVal(b[k])
              /\ \A j \in 1..(k - 1) : a[j] = b[j]

\* The digits d with the digit at index k replaced, without its last digit,
\* and with one digit more.
Near(d) ==
    {[d EXCEPT ![k] = c] : k \in 1..Len(d), c \in Digits}
    \cup {SubSeq(d, 1, Len(d) - 1)}
    \cup {Append(d, c) : c \in Digits}

\* Integers around 2^63 and 2^64, and small ones, written without a leading
\* zero, with and without a minus sign, alone and as the element of an array.
NumberTokens ==
    LET plain == {t \in Near(TwoTo63) \cup Near(TwoTo64) \cup Near(U64_MAX)
                            \cup Near(I64_MAX) \cup {<<"0">>, <<"7">>, <<"4", "2">>} :
                     Len(t) = 1 \/ t[1] # "0"}
    IN  plain \cup {<<"-">> \o t : t \in plain}

NumberTexts == NumberTokens \cup {<<"[">> \o t \o <<"]">> : t \in NumberTokens}

InitNumber ==
    /\ src \in NumberTexts
    /\ pc = "ready"
    /\ result = NoResult
    /\ input = Input_new(src)
    /\ advances = 0

\* The parsing machine on the texts of integers.
SpecNumber == InitNumber /\ [][Next]_vars

\* The integer of src, and the node that parse returned for it.
TokenOf(s) == IF s[1] = "[" THEN SubSeq(s, 2, Len(s) - 1) ELSE s
NumberOf(s, tree) == IF s[1] = "[" THEN tree.value.a[1].value.n ELSE tree.value.n

\* The number is the float of the integer written with the digits d.
IsFloatOf(node, negative, d) ==
    /\ node.variant = "Float"
    /\ node.f.cls = "finite"
    /\ node.f.neg = negative
    /\ node.f.m = StripTrailingZeros(d)
    /\ node.f.e = Len(d) - Len(StripTrailingZeros(d))

-----------------------------------------------------------------------------
(* The sign of the integers of the tree.                                   *)

\* The first character of the text of a node.
FirstCharOf(s, node) ==
    s[CHOOSE a \in 1..Len(s) : PosOfIndex(s, a) = node.start]

RECURSIVE SignsAgree(_, _)
\* At the node and below it, a NegInt is below zero and a PosInt is written
\* without a minus sign.
SignsAgree(s, node) ==
    /\ node.value.t = "Number" /\ node.value.n.variant = "NegInt" =>
           node.value.n.i.neg /\ node.value.n.i.mag # <<"0">>
    /\ node.value.t = "Number" /\ node.value.n.variant = "PosInt" =>
           FirstCharOf(s, node) # "-"
    /\ \A k \in DOMAIN Children(node) : SignsAgree(s, Children(node)[k])

\* C20: in the tree of a successful parse a NegInt is strictly negative and a
\* PosInt is written without a minus sign: NegInt never holds zero or a
\* positive value, PosInt never a negative one.
C20_SignsAgree == Succeeded => SignsAgree(src, result.value)

-----------------------------------------------------------------------------
(* The lowering of src/src/ser.rs, driven by a writer of compact JSON text *)
(* (the serde_json serializer of the crate's documentation): each arm of   *)
(* Value::serialize with the text the writer puts out for it.              *)

RECURSIVE NatDigits(_)
\* The decimal digits of a natural number.
NatDigits(n) ==
    IF n < 10 THEN <<DigitChar(n)>> ELSE Append(NatDigits(n \div 10), DigitChar(n % 10))

HexChar(n) ==
    <<"0", "1", "2", "3", "4", "5", "6", "7", "8", "9", "a", "b", "c", "d", "e", "f">>[n + 1]

Zeros(n) == [k \in 1..n |-> "0"]

\* Self::Null => serializer.serialize_unit()
serialize_unit == <<"n", "u", "l", "l">>

\* Value::Bool(bool) => serializer.serialize_bool(*bool)
serialize_bool(b) == IF b THEN <<"t", "r", "u", "e">> ELSE <<"f", "a", "l", "s", "e">>

\* Number::PosInt(num) => serializer.serialize_u64(*num): the decimal digits.
serialize_u64(num) == StripLeadingZeros(num)

\* Number::NegInt(num) => serializer.serialize_i64(*num): a '-' for a number
\* below zero only, then the decimal digits of the magnitude.
serialize_i64(num) ==
    IF num.neg /\ num.mag # <<"0">> THEN <<"-">> \o num.mag ELSE num.mag

\* Number::Float(num) => serializer.serialize_f64(*num): null for an infinity
\* or a NaN; else the shortest decimal m * 10^e, written with a point when its
\* first digit has an exponent from -5 to 15 and with an exponent otherwise.
serialize_f64(num) ==
    LET m == num.m
        n == Len(m)
        kk == n + num.e
        sign == IF num.neg THEN <<"-">> ELSE <<>>
        exp == IF kk - 1 < 0 THEN <<"-">> \o NatDigits(1 - kk) ELSE NatDigits(kk - 1)
    IN  IF num.cls # "finite" THEN <<"n", "u", "l", "l">>
        ELSE IF m = <<"0">> THEN sign \o <<"0", ".", "0">>
        ELSE IF num.e >= 0 /\ kk <= 16 THEN sign \o m \o Zeros(num.e) \o <<".", "0">>
        ELSE IF 0 < kk /\ kk <= 16
             THEN sign \o SubSeq(m, 1, kk) \o <<".">> \o SubSeq(m, kk + 1, n)
        ELSE IF -5 < kk /\ kk <= 0 THEN sign \o <<"0", ".">> \o Zeros(0 - kk) \o m
        ELSE IF n = 1 THEN sign \o m \o <<"e">> \o exp
        ELSE sign \o <<m[1], ".">> \o SubSeq(m, 2, n) \o <<"e">> \o exp

\* One character of a string as the writer escapes it.
escape_char(c) ==
    CASE c = "\"" -> <<"\\", "\"">>
      [] c = "\\" -> <<"\\", "\\">>
      [] c = "\n" -> <<"\\", "n">>
      [] c = "\r" -> <<"\\", "r">>
      [] c = "\t" -> <<"\\", "t">>
      [] c \in KnownChars -> <<c>>
      [] CodePoint(c) = 8 -> <<"\\", "b">>
      [] CodePoint(c) = 12 -> <<"\\", "f">>
      [] CodePoint(c) < 32 ->
            <<"\\", "u", "0", "0", HexChar(CodePoint(c) \div 16), HexChar(CodePoint(c) % 16)>>
      [] OTHER -> <<c>>

RECURSIVE escape_str(_)
escape_str(s) == IF s = <<>> THEN <<>> ELSE escape_char(Head(s)) \o escape_str(Tail(s))

\* Value::String(str) => serializer.serialize_str(str)
serialize_str(str) == <<"\"">> \o escape_str(str) \o <<"\"">>

RECURSIVE Value_serialize(_), seq_elements(_, _), map_entries(_, _)
\* impl Serialize for SpannedValue: self.value.serialize(serializer)
SpannedValue_serialize(self) == Value_serialize(self.value)

\* for v in array { seq.serialize_element(v)? }
seq_elements(elements, k) ==
    IF k > Len(elements) THEN <<>>
    ELSE (IF k > 1 THEN <<",">> ELSE <<>>) \o SpannedValue_serialize(elements[k])
         \o seq_elements(elements, k + 1)

\* for (k, v) in obj { map.serialize_entry(k, v)? }: the entries in the order
\* the map hands them out, here the order of one choice after another.
map_entries(obj, todo) ==
    IF todo = {} THEN <<>>
    ELSE LET k == CHOOSE key \in todo : TRUE
         IN  serialize_str(k) \o <<":">> \o SpannedValue_serialize(obj[k])
             \o (IF todo = {k} THEN <<>> ELSE <<",">>) \o map_entries(obj, todo \ {k})

\* impl Serialize for Value
Value_serialize(self) ==
    CASE self.t = "Null" -> serialize_unit
      [] self.t = "Number" /\ self.n.variant = "Float" -> serialize_f64(self.n.f)
      [] self.t = "Number" /\ self.n.variant = "PosInt" -> serialize_u64(self.n.u)
      [] self.t = "Number" /\ self.n.variant = "NegInt" -> serialize_i64(self.n.i)
      [] self.t = "String" -> serialize_str(self.s)
      [] self.t = "Bool" -> serialize_bool(self.b)
      [] self.t = "Array" -> <<"[">> \o seq_elements(self.a, 1) \o <<"]">>
      [] self.t = "Object" -> <<"{">> \o map_entries(self.m, DOMAIN self.m) \o <<"}">>

\* C21: whenever parse succeeds, the text the lowering writes for the tree
\* parses again, to a tree of the same values, variants and payloads as the
\* first one (the spans left out, the keys of an object in any order).
C21_RoundTrip ==
    Succeeded =>
        LET again == parse(SpannedValue_serialize(result.value))
        IN  /\ again.tag = "Ok"
            /\ StripSpans(again.value) = StripSpans(result.value)

-----------------------------------------------------------------------------
(* Objects that write a key more than once.                                *)

RECURSIVE ObjectNodes(_)
\* The object nodes of a tree.
ObjectNodes(node) ==
    (IF node.value.t = "Object" THEN {node} ELSE {})
    \cup UNION {ObjectNodes(Children(node)[k]) : k \in DOMAIN Children(node)}

\* The index of the character of s that stands at a position.
IndexOfPos(s, pos) == CHOOSE k \in 1..Len(s) : PosOfIndex(s, k) = pos

\* The index of the innermost bracket that is open before index q; 0 for none.
InnermostOpen(s, q) ==
    LET open == Unclosed(SubSeq(s, 1, q - 1), 1, <<>>)
    IN  IF open = <<>> THEN 0 ELSE Head(open)

\* The indices of the opening quotes of the keys written in the object whose
\* brace is at index o of an accepted text.
KeyStarts(s, o) ==
    {q \in (o + 1)..Len(s) :
        /\ s[q] = "\""
        /\ (q - 1) \in Structural(s)
        /\ s[PrevNonWs(s, q - 1)] \in {"{", ","}
        /\ InnermostOpen(s, q) = o}

\* The closing quote of the string literal that opens at index q.
ClosingQuote(s, q) ==
    LET J == {j \in (q + 1)..Len(s) :
                 s[j] = "\"" /\ (j = Len(s) \/ (j + 1) \in Structural(s))}
    IN  CHOOSE j \in J : \A h \in J : j <= h

\* The key written at q, and the index where its value starts.
KeyText(s, q) == parse(SubSeq(s, q, ClosingQuote(s, q))).value.value.s
ValueStart(s, q) == NextNonWs(s, NextNonWs(s, ClosingQuote(s, q) + 1) + 1)

\* The entry of the object for a key is the value written after the last
\* occurrence of the key: it starts where that value starts and is the value
\* that the text of its span denotes.
LastOccurrence(s, obj, key) ==
    LET occ == {q \in KeyStarts(s, IndexOfPos(s, obj.start)) : KeyText(s, q) = key}
        c == ValueStart(s, SetMax(occ))
        entry == obj.value.m[key]
        alone == parse(SubSeq(s, c, IndexOfPos(s, entry.end)))
    IN  /\ occ # {}
        /\ entry.start = PosOfIndex(s, c)
        /\ alone.tag = "Ok"
        /\ StripSpans(alone.value) = StripSpans(entry)

\* The occurrences of keys of s that are written again later in their object:
\* with a letter put in front of the key the text is accepted, and a later
\* key of the same object is written with the same characters.
RepeatedKeys(s) ==
    {q \in {k \in 1..Len(s) : Cardinality({j \in 1..Len(s) : s[j] = "\""}) >= 4} :
        /\ s[q] = "\""
        /\ LET other == InsertAt(s, q + 1, "z")
               renamed == parse(other)
           IN  /\ renamed.tag = "Ok"
               /\ InnermostOpen(other, q) > 0
               /\ q \in KeyStarts(other, InnermostOpen(other, q))
               /\ \E p \in KeyStarts(other, InnermostOpen(other, q)) :
                      /\ p > q
                      /\ SubSeq(other, p, ClosingQuote(other, p))
                             = SubSeq(s, q, ClosingQuote(other, q) - 1)}

\* C22: a text with an object that writes a key more than once is accepted,
\* and in the tree of an accepted text every object has one entry for each key
\* written in it, with the value and the span of the last occurrence of the
\* key.
C22_LastKeyWins ==
    /\ Done /\ RepeatedKeys(src) # {} => Succeeded
    /\ Succeeded =>
        \A obj \in ObjectNodes(result.value) :
            /\ DOMAIN obj.value.m
                   = {KeyText(src, q) : q \in KeyStarts(src, IndexOfPos(src, obj.start))}
            /\ \A key \in DOMAIN obj.value.m : LastOccurrence(src, obj, key)

\* An accepted object that writes one key twice, with two different values.
C22_Witness ==
    /\ Succeeded
    /\ RepeatedKeys(src) # {}
    /\ \E obj \in ObjectNodes(result.value) :
           \E q1, q2 \in KeyStarts(src, IndexOfPos(src, obj.start)) :
               /\ q1 < q2
               /\ KeyText(src, q1) = KeyText(src, q2)
               /\ src[ValueStart(src, q1)] # src[ValueStart(src, q2)]

-----------------------------------------------------------------------------
(* The first end-to-end scenario: an object on three indented lines.       *)

Scenario1 ==
    <<" ", " ", "{", "\n", " ", " ", " ", " ", "\"", "h", "e", "l", "l", "o", "\"",
      ":", " ", "\"", "w", "o", "r", "l", "d", "\"", "\n", " ", " ", "}", "\n">>

\* The call succeeded with an object spanning root_start..root_end whose entry
\* for hello is the string world spanning value_start..value_end.
HelloWorldAt(root_start, root_end, value_start, value_end) ==
    /\ result.tag = "Ok"
    /\ result.value.start = root_start
    /\ result.value.end = root_end
    /\ result.value.value.t = "Object"
    /\ DOMAIN result.value.value.m = {<<"h", "e", "l", "l", "o">>}
    /\ LET world == result.value.value.m[<<"h", "e", "l", "l", "o">>]
       IN  /\ world.value = Value_String(<<"w", "o", "r", "l", "d">>)
           /\ world.start = value_start
           /\ world.end = value_end

\* C23 as stated: the root spans (2,3)-(3,3) and the value (2,15)-(2,21).
C23_Scenario1_AsStated ==
    (Done /\ src = Scenario1) =>
        HelloWorldAt([line |-> 2, col |-> 3], [line |-> 3, col |-> 3],
                     [line |-> 2, col |-> 15], [line |-> 2, col |-> 21])

\* C23: parsing the scenario's text succeeds; the root spans (1,3)-(3,3), from
\* the brace on the first line to the brace on the third, and the value under
\* hello is the string world spanning (2,14)-(2,20), its two quotes.
C23_Scenario1 ==
    (Done /\ src = Scenario1) =>
        HelloWorldAt([line |-> 1, col |-> 3], [line |-> 3, col |-> 3],
                     [line |-> 2, col |-> 14], [line |-> 2, col |-> 20])

\* The scenario's text has been parsed.
C23_Witness == Done /\ src = Scenario1 /\ result.tag = "Ok"

-----------------------------------------------------------------------------
(* An array that the end of the text cuts off right after its bracket.     *)

\* The indices of the opening brackets of s that only whitespace follows, up
\* to the end of s, and where an array may stand.
OpenArrayAtEnd(s) ==
    {b \in 1..Len(s) :
        /\ s[b] = "["
        /\ \A k \in (b + 1)..Len(s) : s[k] \in JsonWhitespace
        /\ Completes(SubSeq(s, 1, b), <<>>)}

\* C24: when the text ends after an opening '[' and optional whitespace, parse
\* fails with MissingArrayBracket from the position of the '[' to the current
\* position at the end of the text, the whitespace and line breaks after the
\* bracket included: the position of the last character read or the one after.
C24_ArrayCutOff ==
    Done => \A b \in OpenArrayAtEnd(src) :
                \E end \in {PosOfIndex(src, Len(src)), PositionAfter(src)} :
                    FailsWith("MissingArrayBracket", PosOfIndex(src, b), end)

-----------------------------------------------------------------------------
(* Fatal errors of nested values on their way out of parse.                *)

\* The Input that stands at index k of s.
InputAt(s, k) == slice_from(Input_new(s), ByteLen(SubSeq(s, 1, k - 1)))

\* The indices of s, right after a '[', a ',' or a ':', where the parser has
\* read a well-formed text so far and parses a value of an array or object
\* (after a '[' it does when neither a ']' nor the end of the text follows).
NestedValueSites(s) ==
    {k \in 2..(Len(s) + 1) :
        /\ s[k - 1] \in {"[", ",", ":"}
        /\ s[k - 1] = "[" => NextNonWs(s, k) # 0 /\ s[NextNonWs(s, k)] # "]"
        /\ Completes(SubSeq(s, 1, k - 1), <<"0">>)}

\* What the value production returns at index k.
RaisedAt(s, k) == json_value(InputAt(s, k))

\* C25 as stated: a fatal error of a nested value is what parse returns, with
\* the kind and the span it was raised with.
C25_FatalErrorsPropagate_AsStated ==
    Done => \A k \in NestedValueSites(src) :
                RaisedAt(src, k).tag = "Failure" => result = StdErr(RaisedAt(src, k).e)

\* The element after a comma of an array is a ']'.
BracketAfterComma(s, k) ==
    s[k - 1] = "," /\ NextNonWs(s, k) # 0 /\ s[NextNonWs(s, k)] = "]"

\* C25: a fatal error of a nested value is what parse returns, with the kind
\* and the span it was raised with and whatever text follows, but for the
\* InvalidValue of a ']' that stands where the element after a comma should:
\* the array replaces that one with TrailingComma at the comma.  No array or
\* object replaces a fatal error with its own MissingArrayBracket,
\* MissingObjectBracket or MissingComma.
C25_FatalErrorsPropagate ==
    Done => \A k \in NestedValueSites(src) :
                RaisedAt(src, k).tag = "Failure" =>
                    IF BracketAfterComma(src, k)
                    THEN FailsWith("TrailingComma", PosOfIndex(src, k - 1),
                                   PosOfIndex(src, k - 1))
                    ELSE result = StdErr(RaisedAt(src, k).e)

\* A fatal error raised two constructs deep, with more text after it.
C25_Witness ==
    /\ Failed
    /\ \E k \in NestedValueSites(src) :
           /\ RaisedAt(src, k).tag = "Failure"
           /\ result = StdErr(RaisedAt(src, k).e)
           /\ Len(Unclosed(SubSeq(src, 1, k - 1), 1, <<>>)) >= 2
           /\ result.e.kind = "InvalidValue"
           /\ src[Len(src)] \in {"]", "}"}

-----------------------------------------------------------------------------
(* Recoverable and fatal failures of the productions.                      *)

\* The indices of s where the parser, after a well-formed beginning, parses a
\* value: the start of the text and the places of the nested values.
ValueSites(s) == {1} \cup NestedValueSites(s)

\* The indices of s, right after a '{' or a ',', where the parser, after a
\* well-formed beginning, parses a member of an object.
MemberSites(s) ==
    {k \in 2..(Len(s) + 1) :
        /\ s[k - 1] \in {"{", ","}
        /\ Completes(SubSeq(s, 1, k - 1), <<"\"", "\"", ":", "0">>)}

\* C26: a production that has consumed its first character fails fatally.  The
\* value production fails recoverably only when no character is left to
\* dispatch on, and key_value only when it has consumed nothing: at the end of
\* the text or before the closing brace.
C26_CommittedFailuresAreFatal ==
    Done =>
        /\ \A k \in ValueSites(src) :
               json_value(InputAt(src, k)).tag = "Error" => NextNonWs(src, k) = 0
        /\ \A k \in MemberSites(src) :
               key_value(InputAt(src, k)).tag = "Error" =>
                   NextNonWs(src, k) = 0 \/ src[NextNonWs(src, k)] = "}"

-----------------------------------------------------------------------------
(* Number tokens that are not written with digits alone.                   *)

\* The longest token of the exhaustive part of the texts below.
MaxTokenLen == 4

TokenAlphabet == {"-", "+", "0", "1", "9", "a", "f", "i", "n", "x"}

\* Texts that are one number token without '.', 'e' and 'E': they start with
\* a '-' or a digit and hold no delimiter.
TokenTexts ==
    {t \in Texts(TokenAlphabet, MaxTokenLen) : t # <<>> /\ t[1] \in Digits \cup {"-"}}
    \cup {<<"-", "i", "n", "f", "i", "n", "i", "t", "y">>,
          U64_MAX, TwoTo64, <<"-">> \o TwoTo63, <<"-">> \o TwoTo64}

InitToken ==
    /\ src \in TokenTexts
    /\ pc = "ready"
    /\ result = NoResult
    /\ input = Input_new(src)
    /\ advances = 0

\* The parsing machine on the texts of one number token.
SpecToken == InitToken /\ [][Next]_vars

\* An optional '-' followed by decimal digits only, and at least one.
IsIntegerLiteral(t) ==
    LET d == IF t # <<>> /\ t[1] = "-" THEN Tail(t) ELSE t
    IN  d # <<>> /\ \A k \in 1..Len(d) : d[k] \in Digits

\* The integer literal t lies outside the range of its integer variant: u64
\* without a '-', i64 with one.
OutOfIntegerRange(t) ==
    IF t[1] = "-"
    THEN LET d == StripLeadingZeros(Tail(t))
         IN  ~(DigitsLess(d, TwoTo63) \/ d = TwoTo63)
    ELSE ~DigitsLess(StripLeadingZeros(t), TwoTo64)

\* C27: a number token without '.', 'e' and 'E' gives a Float only when it is
\* an integer literal outside the range of its integer variant, and a token
\* that is not an integer literal makes parse fail with InvalidValue.
C27_FloatOnlyForWideIntegers ==
    (Done /\ \A k \in 1..Len(src) : src[k] \notin {".", "e", "E"}) =>
        /\ (result.tag = "Ok" /\ result.value.value.n.variant = "Float") =>
               IsIntegerLiteral(src) /\ OutOfIntegerRange(src)
        /\ ~IsIntegerLiteral(src) => Failed /\ result.e.kind = "InvalidValue"

-----------------------------------------------------------------------------
(* Strings written with escapes.                                           *)

\* The largest number of pieces of a string of the texts below.
MaxPieces == 3

\* A character, escapes the grammar has and escapes it has not, and \u escapes
\* of scalar values, of high surrogates and of low surrogates.
Pieces ==
    {<<"a">>, <<"\\", "n">>, <<"\\", "x">>, <<"\\", "0">>,
     <<"\\", "u", "0", "0", "4", "1">>, <<"\\", "u", "0", "0", "0", "0">>,
     <<"\\", "u", "D", "7", "F", "F">>, <<"\\", "u", "F", "F", "F", "F">>,
     <<"\\", "u", "D", "8", "0", "0">>, <<"\\", "u", "d", "8", "3", "e">>,
     <<"\\", "u", "D", "B", "F", "F">>,
     <<"\\", "u", "D", "C", "0", "0">>, <<"\\", "u", "d", "d", "1", "4">>,
     <<"\\", "u", "D", "F", "F", "F">>}

RECURSIVE Bodies(_)
\* The texts made of at most n pieces.
Bodies(n) ==
    IF n = 0 THEN {<<>>}
    ELSE Bodies(n - 1) \cup {b \o p : b \in Bodies(n - 1), p \in Pieces}

\* A string alone, and the shorter ones as the key of an object too.
EscapeTexts ==
    {<<"\"">> \o b \o <<"\"">> : b \in Bodies(MaxPieces)}
    \cup {<<"{", "\"">> \o b \o <<"\"", ":", "0", "}">> : b \in Bodies(MaxPieces - 1)}

InitEscape ==
    /\ src \in EscapeTexts
    /\ pc = "ready"
    /\ result = NoResult
    /\ input = Input_new(src)
    /\ advances = 0

\* The parsing machine on the texts of one string.
SpecEscape == InitEscape /\ [][Next]_vars

\* The value of a hexadecimal digit, -1 for another character.
UpperHex == <<"0", "1", "2", "3", "4", "5", "6", "7", "8", "9", "A", "B", "C", "D", "E", "F">>
LowerHex == <<"0", "1", "2", "3", "4", "5", "6", "7", "8", "9", "a", "b", "c", "d", "e", "f">>
HexDigitOf(c) ==
    IF \E n \in 1..16 : c \in {UpperHex[n], LowerHex[n]}
    THEN (CHOOSE n \in 1..16 : c \in {UpperHex[n], LowerHex[n]}) - 1
    ELSE -1

\* The number that the four characters of s from index k on write in
\* hexadecimal; -1 when they are not four hexadecimal digits.
Hex4(s, k) ==
    IF k + 3 <= Len(s) /\ \A j \in k..(k + 3) : HexDigitOf(s[j]) >= 0
    THEN ((HexDigitOf(s[k]) * 16 + HexDigitOf(s[k + 1])) * 16 + HexDigitOf(s[k + 2])) * 16
         + HexDigitOf(s[k + 3])
    ELSE -1

HighSurrogates == 55296..56319
LowSurrogates == 56320..57343

\* A low surrogate is written as a \u escape at index k of s.
LowSurrogateAt(s, k) ==
    /\ k + 5 <= Len(s)
    /\ s[k] = "\\"
    /\ s[k + 1] = "u"
    /\ Hex4(s, k + 2) \in LowSurrogates

RECURSIVE BadEscapeFrom(_, _)
\* The string literal that goes on at index k of s has, before its closing
\* quote, a backslash followed by a character that starts no escape, or a \u
\* escape of a low surrogate that follows no high one, or of a high surrogate
\* that no \u escape of a low one follows at once.
BadEscapeFrom(s, k) ==
    IF k >= Len(s) \/ s[k] = "\"" THEN FALSE
    ELSE IF s[k] # "\\" THEN BadEscapeFrom(s, k + 1)
    ELSE IF s[k + 1] \in {"\"", "\\", "/", "b", "f", "n", "r", "t"}
         THEN BadEscapeFrom(s, k + 2)
    ELSE IF s[k + 1] # "u" THEN TRUE
    ELSE IF Hex4(s, k + 2) \in LowSurrogates THEN TRUE
    ELSE IF Hex4(s, k + 2) \in HighSurrogates
         THEN IF LowSurrogateAt(s, k + 6) THEN BadEscapeFrom(s, k + 12) ELSE TRUE
    ELSE IF Hex4(s, k + 2) < 0 THEN BadEscapeFrom(s, k + 2)
    ELSE BadEscapeFrom(s, k + 6)

\* The index of the first quote of s; 0 when it has none.
FirstQuote(s) ==
    LET Q == {k \in 1..Len(s) : s[k] = "\""}
    IN  IF Q = {} THEN 0 ELSE CHOOSE k \in Q : \A h \in Q : k <= h

\* The first string literal of s has such an escape.
HasBadEscape(s) == FirstQuote(s) > 0 /\ BadEscapeFrom(s, FirstQuote(s) + 1)

\* C28: a string with a backslash before a character that starts no escape,
\* with a lone low surrogate, a lone high surrogate, or a high surrogate that
\* no \u escape of a low surrogate follows at once, makes parse fail: the text
\* is not accepted, whether whole, cut short or with another character in the
\* place of the escape.
C28_BadEscapesRejected ==
    (Done /\ HasBadEscape(src)) => result.tag = "Err"

\* A high surrogate followed by the \u escape of a scalar value, rejected, and
\* in front of them a character that alone would be accepted.
C28_Witness ==
    /\ Failed
    /\ HasBadEscape(src)
    /\ \E k \in 3..Len(src) :
           /\ Hex4(src, k + 2) \in HighSurrogates
           /\ Hex4(src, k + 8) \in 0..55295
           /\ src[k - 1] = "a"

\* The character of a scalar value, as the texts of the model write it.
CharOfScalar(cp) ==
    IF \E c \in KnownChars : CodePoint(c) = cp
    THEN CHOOSE c \in KnownChars : CodePoint(c) = cp
    ELSE "#" \o ToString(cp)

\* The scalar value that a high and a low surrogate stand for together.
PairScalar(h, l) == ((h - 55296) * 1024) + (l - 56320) + 65536

RECURSIVE DecodedFrom(_, _)
\* The characters that the string literal going on at index k of s denotes, up
\* to its closing quote, when it has no bad escape: each pair of surrogates is
\* one character, every other \u escape the character of its number.
DecodedFrom(s, k) ==
    IF k > Len(s) \/ s[k] = "\"" THEN <<>>
    ELSE IF s[k] # "\\" THEN <<s[k]>> \o DecodedFrom(s, k + 1)
    ELSE IF s[k + 1] \in {"\"", "\\", "/"} THEN <<s[k + 1]>> \o DecodedFrom(s, k + 2)
    ELSE IF s[k + 1] \in {"b", "f", "n", "r", "t"}
         THEN <<CharOfScalar(CASE s[k + 1] = "b" -> 8 [] s[k + 1] = "f" -> 12
                               [] s[k + 1] = "n" -> 10 [] s[k + 1] = "r" -> 13
                               [] s[k + 1] = "t" -> 9)>>
              \o DecodedFrom(s, k + 2)
    ELSE IF Hex4(s, k + 2) \in HighSurrogates
         THEN <<CharOfScalar(PairScalar(Hex4(s, k + 2), Hex4(s, k + 8)))>>
              \o DecodedFrom(s, k + 12)
    ELSE <<CharOfScalar(Hex4(s, k + 2))>> \o DecodedFrom(s, k + 6)

\* The string that parse returned for the first string literal of src: the
\* root, or the one key of the root.
DecodedString ==
    IF result.value.value.t = "String" THEN result.value.value.s
    ELSE CHOOSE key \in DOMAIN result.value.value.m : TRUE

\* The pairs of surrogates written in s, as <<high, low>>.
PairsOf(s) ==
    {<<Hex4(s, k + 2), Hex4(s, k + 8)>> : k \in {j \in 1..Len(s) :
        /\ s[j] = "\\"
        /\ Hex4(s, j + 2) \in HighSurrogates
        /\ LowSurrogateAt(s, j + 6)}}

\* C29: \uH\uL with H a high and L a low surrogate decodes to the one scalar
\* ((H - D800) << 10) + (L - DC00) + 10000 (hexadecimal), which lies in
\* 10000..10FFFF, and every \uXXXX outside D800..DFFF decodes to the scalar
\* XXXX, 0000 included: a string without a bad escape is accepted with exactly
\* these characters.
C29_EscapesDecode ==
    (Done /\ ~HasBadEscape(src)) =>
        /\ result.tag = "Ok"
        /\ DecodedString = DecodedFrom(src, FirstQuote(src) + 1)
        /\ \A p \in PairsOf(src) : PairScalar(p[1], p[2]) \in 65536..1114111

\* The largest pair, DBFF DFFF, after the escape of the scalar 0: two
\* characters, the second one U+10FFFF.
C29_Witness ==
    /\ Succeeded
    /\ <<56319, 57343>> \in PairsOf(src)
    /\ DecodedString = <<CharOfScalar(0), CharOfScalar(1114111)>>

-----------------------------------------------------------------------------
(* The slicing machine with the three slicing operations of Input.         *)

\* self.slice(..n)
Prefix(n) ==
    /\ advances < MaxAdvances
    /\ n \in Boundaries(input.data)
    /\ input' = slice_to(input, n)
    /\ advances' = advances + 1
    /\ UNCHANGED <<src, pc, result>>

\* self.slice(a..b)
Range(a, b) ==
    /\ advances < MaxAdvances
    /\ a \in Boundaries(input.data)
    /\ b \in Boundaries(input.data)
    /\ a <= b
    /\ input' = slice_range(input, a, b)
    /\ advances' = advances + 1
    /\ UNCHANGED <<src, pc, result>>

NextSlice ==
    \/ \E n \in Boundaries(input.data) : Advance(n)
    \/ \E n \in Boundaries(input.data) : Prefix(n)
    \/ \E a \in Boundaries(input.data), b \in Boundaries(input.data) : Range(a, b)

SpecSlice == InitInput /\ [][NextSlice]_vars

\* The position reached from the position pos by reading the text p.
PositionFrom(pos, p) ==
    LET newlines == {k \in 1..Len(p) : p[k] = "\n"}
    IN  IF newlines = {} THEN [line |-> pos.line, col |-> pos.col + Len(p)]
        ELSE [line |-> pos.line + Cardinality(newlines),
              col |-> 1 + (Len(p) - SetMax(newlines))]

\* The (line, col) of an Input.
PositionOf(i) == [line |-> i.line, col |-> i.col]

\* C30: each slicing operation gives an input at the position of the first
\* character of the new view: where the input was for a prefix, and where
\* reading the skipped characters leads for a suffix and for a range.  No
\* operation resets the position or gives the line 0.
C30_SlicesKeepPosition ==
    [][/\ input'.line >= 1
       /\ \A n \in Boundaries(input.data) :
              /\ Prefix(n) => PositionOf(input') = PositionOf(input)
              /\ Advance(n) =>
                     PositionOf(input') = PositionFrom(PositionOf(input), StrTo(input.data, n))
       /\ \A a \in Boundaries(input.data), b \in Boundaries(input.data) :
              Range(a, b) =>
                  PositionOf(input') = PositionFrom(PositionOf(input), StrTo(input.data, a))
      ]_vars

====
